---------------------------- MODULE Spec2Model ----------------------------
(***************************************************************************)
(* genomerator: streaming interval algebra over sorted genome features.    *)
(*                                                                         *)
(* Every component of the library is a single-threaded, pull-driven        *)
(* object.  Each one is modelled by one variable holding the object's      *)
(* fields together with the results its calls have handed to the caller:   *)
(*   gb  GenomeBuffer        (container.py)                                *)
(*   fs  FeatureStream       (input.py)                                    *)
(*   fo  FeatureOverlapper   (generator.py)                                *)
(*   og  OperationGenerator  (generator.py)                                *)
(*   dg  DictGenerator       (generator.py)                                *)
(*   gf  GenomeFeature       (GenomeFeature.py): the operands and the      *)
(*       result of one call of a method of the feature algebra             *)
(*   ga  GenomeArray         (container.py)                                *)
(* A specification runs one component; the others stay idle.               *)
(***************************************************************************)
EXTENDS Integers, Sequences, FiniteSets

VARIABLES gb, fs, fo, og, dg, gf, ga

vars == <<gb, fs, fo, og, dg, gf, ga>>

(***************************************************************************)
(* Bounds of the model.                                                    *)
(***************************************************************************)
MaxPos == 3        \* genome positions are 1..MaxPos
MaxLen == 3        \* longest source fed to a single-input component
JoinMaxPos == 2    \* positions 1..JoinMaxPos for a join whose predicates are unknown
MaxLenA == 2       \* longest "a" input of a merge join
MaxLenB == 3       \* longest "b" input of a merge join
MaxCalls == 3      \* a GenomeArray receives at most MaxCalls method calls
MaxShift == 2      \* distances passed to a GenomeArray are -MaxShift..MaxShift

Refs == {0, 1}     \* reference ids in use
Positions == 1..MaxPos

(***************************************************************************)
(* GenomeFeature: the record type.  id stands for the Python object's      *)
(* identity (the index of the record in the source that produced it, 0 for *)
(* a temporary built by a property).  is_reverse plays no part in the      *)
(* operations modelled here.                                               *)
(***************************************************************************)
GenomeFeature(id, reference_id, left_pos, right_pos, data) ==
    [id |-> id, reference_id |-> reference_id, left_pos |-> left_pos,
     right_pos |-> right_pos, data |-> data]

\* Python's None where a feature is expected.
None == GenomeFeature(0, 0, 0, 0, 0)

\* the coordinates a valid feature can have (the constructor's assertions)
Coords == {c \in [reference_id : Refs, left_pos : Positions, right_pos : Positions] :
              c.right_pos >= c.left_pos}

\* the coordinates of the features fed to a join whose predicates are unknown
JoinCoords == {c \in Coords : c.right_pos <= JoinMaxPos}

\* a source: features numbered in pull order, payload 0
Source(cs) == [i \in 1..Len(cs) |->
                 GenomeFeature(i, cs[i].reference_id, cs[i].left_pos, cs[i].right_pos, 0)]

\* self.left / self.right: single-position views
left(self) == GenomeFeature(0, self.reference_id, self.left_pos, self.left_pos, self.data)

right(self) == GenomeFeature(0, self.reference_id, self.right_pos, self.right_pos, self.data)

\* == that looks at right_pos as well
EqWholeSpan(self, other) ==
    /\ self.reference_id = other.reference_id
    /\ self.left_pos = other.left_pos
    /\ self.right_pos = other.right_pos

__eq__(self, other) ==
    self.reference_id = other.reference_id /\ self.left_pos = other.left_pos

__lt__(self, other) ==
    \/ self.reference_id < other.reference_id
    \/ (self.reference_id = other.reference_id /\ self.left_pos < other.left_pos)

__le__(self, other) == __eq__(self, other) \/ __lt__(self, other)

\* x >= y and x > y: GenomeFeature defines neither __ge__ nor __gt__, so
\* Python evaluates the reflected y <= x and y < x.
__ge__(x, y) == __le__(y, x)

__gt__(x, y) == __lt__(y, x)

\* left_of that wants a base between the two features
LeftOfWithGap(self, other) ==
    \/ self.reference_id < other.reference_id
    \/ (self.reference_id = other.reference_id /\ self.right_pos + 1 < other.left_pos)

left_of(self, other) == __lt__(right(self), left(other))

\* right_of with >= in place of >: a feature that starts where the other ends
\* counts as beyond it
RightOfOrTouching(self, other) == __ge__(left(self), right(other))

right_of(self, other) == __gt__(left(self), right(other))

\* intersects that counts adjacent features as overlapping
IntersectsOrTouches(self, other) ==
    /\ other.reference_id = self.reference_id
    /\ ~(other.right_pos + 1 < self.left_pos \/ self.right_pos + 1 < other.left_pos)

intersects(self, other) ==
    /\ other.reference_id = self.reference_id
    /\ ~(other.right_pos < self.left_pos \/ self.right_pos < other.left_pos)

\* the builtin max(x, y): y replaces x only when y > x
max(x, y) == IF __gt__(y, x) THEN y ELSE x

\* a source is ascending when no record is less than its predecessor
Ascending(s) == \A i \in 1..(Len(s) - 1) : __ge__(s[i + 1], s[i])

Ids(s) == [i \in 1..Len(s) |-> s[i].id]

Idle == [pc |-> "idle"]

(***************************************************************************)
(* GenomeBuffer (container.py).                                            *)
(*   source, pulled : the wrapped iterator and how much of it is consumed  *)
(*   reference_id, left_pos, right_pos : the aggregate span                *)
(*   data : the deque of buffered features                                 *)
(*   raised, output : what the last advance() did: "" (returned output),   *)
(*       "StopIteration" or "RuntimeError"; output is the local list the   *)
(*       call built, which reaches the caller only when raised = ""        *)
(*   returned : every evicted list handed to the caller so far, joined     *)
(*   failed : an earlier advance() raised the ordering error               *)
(***************************************************************************)
GenomeBuffer__init__(feature_iterable) ==
    [pc |-> "ready", source |-> feature_iterable, pulled |-> 1,
     reference_id |-> feature_iterable[1].reference_id,
     left_pos |-> feature_iterable[1].left_pos,
     right_pos |-> feature_iterable[1].right_pos,
     data |-> <<feature_iterable[1]>>,
     raised |-> "", output |-> <<>>, returned |-> <<>>, failed |-> FALSE]

\* the aggregate span as the feature the buffer object is
Span(b) == GenomeFeature(0, b.reference_id, b.left_pos, b.right_pos, 0)

\* the loop's test made against the oldest buffered record, not the span
EvictTestOldest(self, next_feature) ==
    Len(self.data) > 0 /\ (next_feature = None \/ right_of(next_feature, self.data[1]))

\* the loop's test made against the left edge of the span alone
EvictTestAgainstLeftEdge(self, next_feature) ==
    Len(self.data) > 0 /\ (next_feature = None \/ right_of(next_feature, left(Span(self))))

\* the while loop of advance(): its test, and the loop itself
EvictTest(self, next_feature) ==
    Len(self.data) > 0 /\ (next_feature = None \/ right_of(next_feature, Span(self)))

RECURSIVE EvictLoop(_, _, _)
EvictLoop(self, next_feature, output) ==
    IF EvictTest(self, next_feature)
    THEN EvictLoop([self EXCEPT !.data = Tail(@)], next_feature,
                   Append(output, Head(self.data)))
    ELSE [self EXCEPT !.output = output]

\* the tail of advance(): append, move the span, return; or signal the end
AppendAndReturn(self, next_feature) ==
    IF next_feature # None
    THEN LET d == Append(self.data, next_feature)
             s1 == [self EXCEPT !.data = d,
                                !.reference_id = next_feature.reference_id,
                                !.left_pos = d[1].left_pos]
         IN  [s1 EXCEPT !.right_pos = max(right(Span(s1)), right(next_feature)).right_pos,
                        !.raised = "",
                        !.returned = @ \o s1.output]
    ELSE [self EXCEPT !.raised = "StopIteration"]

\* the ordering test with > in place of >=: a tie counts as unsorted
NotSortedStrict(self, next_feature) ==
    Len(self.data) > 0 /\ ~__gt__(next_feature, self.data[Len(self.data)])

\* the ordering test of advance()
NotSorted(self, next_feature) ==
    Len(self.data) > 0 /\ ~__ge__(next_feature, self.data[Len(self.data)])

advance(self) ==
    LET exhausted == self.pulled >= Len(self.source)
        next_feature == IF exhausted THEN None ELSE self.source[self.pulled + 1]
        s0 == [self EXCEPT !.pulled = IF exhausted THEN @ ELSE @ + 1]
    IN  IF ~exhausted /\ NotSorted(self, next_feature)
        THEN [s0 EXCEPT !.raised = "RuntimeError", !.output = <<>>, !.failed = TRUE]
        ELSE AppendAndReturn(EvictLoop(s0, next_feature, <<>>), next_feature)

InitBuffer ==
    /\ \E n \in 1..MaxLen : \E cs \in [1..n -> Coords] :
         gb = GenomeBuffer__init__(Source(cs))
    /\ fs = Idle /\ fo = Idle /\ og = Idle /\ dg = Idle /\ gf = Idle /\ ga = Idle

Advance ==
    /\ gb.pc = "ready"
    /\ gb' = advance(gb)
    /\ UNCHANGED <<fs, fo, og, dg, gf, ga>>

NextBuffer == Advance

SpecBuffer == InitBuffer /\ [][NextBuffer]_vars


\* the record advance() is about to pull, None at the end of the source
Upcoming(self) ==
    IF self.pulled < Len(self.source) THEN self.source[self.pulled + 1] ELSE None

Newest(self) == self.data[Len(self.data)]

\* the last call was an advance() that returned its evicted list
Advanced(self) == self.pc = "ready" /\ self.pulled > 1 /\ self.raised = ""

MaxRight(data) == CHOOSE m \in {data[i].right_pos : i \in 1..Len(data)} :
                      \A i \in 1..Len(data) : data[i].right_pos <= m

\* C3: once exhaustion is signalled on an ascending source, the evicted lists
\* the caller received, followed by what is left in the buffer to drain, are
\* the source records, each once, in order.
C3_EveryRecordHandedOver ==
    (gb.raised = "StopIteration" /\ Ascending(gb.source))
        => gb.returned \o gb.data = gb.source

\* C4: advance() signals exhaustion only when the buffer was already empty:
\* the call that raises StopIteration has taken no record out of the buffer.
C4_ExhaustionOnlyWhenEmpty ==
    gb.raised = "StopIteration" => gb.output = <<>>

\* C5: after a successful advance() the span is on the newest record's
\* reference, starts at the oldest buffered record's left_pos and ends at the
\* largest right_pos among the buffered records.
C5_SpanTracksBuffer ==
    Advanced(gb) =>
        /\ gb.reference_id = Newest(gb).reference_id
        /\ gb.left_pos = gb.data[1].left_pos
        /\ gb.right_pos = MaxRight(gb.data)

C7_OrderingErrorExactAndFrameless ==
    [][gb.pc = "ready"
        => LET next_feature == Upcoming(gb)
           IN  /\ (gb'.raised = "RuntimeError")
                    <=> (next_feature # None /\ Len(gb.data) > 0
                         /\ __lt__(next_feature, Newest(gb)))
               /\ (gb'.raised = "RuntimeError")
                    => /\ gb'.data = gb.data
                       /\ Span(gb') = Span(gb)
                       /\ \A i \in 1..Len(gb'.data) : gb'.data[i].id # next_feature.id]_vars

\* C7 witness: an advance() raised the ordering error after an earlier one
\* had succeeded.
C7_Witness ==
    gb.pc = "ready" /\ gb.raised = "RuntimeError" /\ Len(gb.data) >= 2

\* C34: on ascending input, every record in the evicted list a successful
\* advance() returns is left_of the record that call pulled and of every
\* record the source holds after it, and so intersects none of them.
C34_EvictedAreLeftOfIncoming ==
    [][(gb.pc = "ready" /\ Ascending(gb.source) /\ gb'.raised = "")
        => LET next_feature == Upcoming(gb)
           IN  \A j \in 1..Len(gb'.output) :
                 \A k \in (gb.pulled + 1)..Len(gb.source) :
                   /\ left_of(gb'.output[j], gb.source[k])
                   /\ ~intersects(gb'.output[j], gb.source[k])]_vars

\* C34 witness: a successful advance() on ascending input evicted two
\* records, the second of which ends right before the record pulled.
C34_Witness ==
    /\ Advanced(gb) /\ Ascending(gb.source)
    /\ Len(gb.output) = 2 /\ Len(gb.data) = 1
    /\ gb.output[2].reference_id = Newest(gb).reference_id
    /\ gb.output[2].right_pos + 1 = Newest(gb).left_pos

(***************************************************************************)
(* FeatureStream (input.py).                                               *)
(*   source, pulled : the wrapped iterable behind _feature_generator and   *)
(*       how many items the generator has handed over                      *)
(*   assert_sorted, _previous_feature, count : the object's fields         *)
(*   raised : what the last __next__ did: "" (returned a feature),         *)
(*       "AssertionError" or "StopIteration"                               *)
(*   item : the number in the AssertionError's message                     *)
(*   yielded : the features returned so far                                *)
(*   failed : an earlier __next__ raised the ordering error                *)
(***************************************************************************)
FeatureStream__init__(source, assert_sorted) ==
    [pc |-> "ready", source |-> source, pulled |-> 0,
     assert_sorted |-> assert_sorted, _previous_feature |-> None, count |-> 0,
     raised |-> "", item |-> 0, yielded |-> <<>>, failed |-> FALSE]

\* the assertion with > in place of >=: a tie counts as unsorted
SortAssertionFailsOnTies(self, new_feature) ==
    ~(\/ ~self.assert_sorted
      \/ self._previous_feature = None
      \/ __gt__(new_feature, self._previous_feature))

\* the assertion of __next__ fails
SortAssertionFails(self, new_feature) ==
    ~(\/ ~self.assert_sorted
      \/ self._previous_feature = None
      \/ __ge__(new_feature, self._previous_feature))

FeatureStream__next__(self) ==
    IF self.pulled >= Len(self.source)
    THEN [self EXCEPT !.raised = "StopIteration"]
    ELSE LET new_feature == self.source[self.pulled + 1]
             s0 == [self EXCEPT !.pulled = @ + 1]
         IN  IF SortAssertionFails(self, new_feature)
             THEN [s0 EXCEPT !.raised = "AssertionError", !.item = self.count,
                             !.failed = TRUE]
             ELSE [s0 EXCEPT !._previous_feature = new_feature,
                             !.count = @ + 1,
                             !.raised = "",
                             !.yielded = Append(@, new_feature)]

InitStream ==
    /\ \E n \in 0..MaxLen : \E cs \in [1..n -> Coords] : \E assert_sorted \in BOOLEAN :
         fs = FeatureStream__init__(Source(cs), assert_sorted)
    /\ gb = Idle /\ fo = Idle /\ og = Idle /\ dg = Idle /\ gf = Idle /\ ga = Idle

StreamNext ==
    /\ fs.pc = "ready"
    /\ fs' = FeatureStream__next__(fs)
    /\ UNCHANGED <<gb, fo, og, dg, gf, ga>>

NextStream == StreamNext

SpecStream == InitStream /\ [][NextStream]_vars

\* the order-checked components together: a run drives one of them
InitOrdered == InitBuffer \/ InitStream

NextOrdered == Advance \/ StreamNext

SpecOrdered == InitOrdered /\ [][NextOrdered]_vars

\* index (from 1) of the first record of s that is less than its
\* predecessor, 0 when s is ascending
FirstUnsorted(s) ==
    IF Ascending(s) THEN 0
    ELSE CHOOSE i \in 2..Len(s) :
             /\ __lt__(s[i], s[i - 1])
             /\ \A j \in 2..(i - 1) : ~__lt__(s[j], s[j - 1])

\* C8: with sort checking on, the stream yields the records in order up to
\* the first record that is less than its predecessor; the pull that reaches
\* that record raises the ordering error, whose message carries the record's
\* zero-based index, the number of records yielded before it.
C8_ErrorAtFirstUnsortedIndex ==
    [][(fs.pc = "ready" /\ fs.assert_sorted /\ fs.pulled < Len(fs.source))
        => LET k == FirstUnsorted(fs.source)
               n == fs.pulled + 1
           IN  /\ (k = 0 \/ n < k) =>
                    /\ fs'.raised = ""
                    /\ fs'.yielded = SubSeq(fs.source, 1, n)
               /\ (n = k) =>
                    /\ fs'.raised = "AssertionError"
                    /\ fs'.item = k - 1
                    /\ fs'.item = Len(fs.yielded)
                    /\ fs'.yielded = SubSeq(fs.source, 1, k - 1)]_vars

\* C8 witness: the ordering error was raised at an index past the second record.
C8_Witness ==
    /\ fs.pc = "ready" /\ fs.assert_sorted
    /\ fs.raised = "AssertionError" /\ fs.item >= 2
    /\ fs.pulled = FirstUnsorted(fs.source)

\* C9: once a FeatureStream with sort checking, or a GenomeBuffer, has raised
\* the ordering error, no later pull from it returns: every later call raises.
C9_NoPullSucceedsAfterOrderingError ==
    [][/\ (fs.pc = "ready" /\ fs.failed) => fs'.raised # ""
       /\ (gb.pc = "ready" /\ gb.failed) => gb'.raised # ""]_vars

(***************************************************************************)
(* FeatureOverlapper (generator.py).                                       *)
(*   source, pulled : the input and how much of it the for loop has taken  *)
(*   _buffer : the group being built                                       *)
(*   reference_id, left_pos, right_pos : the envelope of that group        *)
(*   pc : where _generator stands: "start" (not yet run), "yield23"        *)
(*       (suspended at the yield inside the loop, the feature that closed  *)
(*       the group pulled but not yet stored), "yield26" (suspended at the *)
(*       final yield), "finished" (returned) or "failed" (died of the      *)
(*       assertion)                                                        *)
(*   raised : what the last __next__ did: "" (returned a group),           *)
(*       "AssertionError" or "StopIteration"                               *)
(*   groups : the groups returned so far                                   *)
(***************************************************************************)
FeatureOverlapper__init__(source) ==
    [pc |-> "start", source |-> source, pulled |-> 0, _buffer |-> <<>>,
     reference_id |-> 0, left_pos |-> 0, right_pos |-> 0,
     raised |-> "", groups |-> <<>>]

\* the envelope as the feature the overlapper object is
Envelope(self) == GenomeFeature(0, self.reference_id, self.left_pos, self.right_pos, 0)

\* the guard with > 1 in place of > 0: a group of one is not handed over
HasGroupOfSeveral(self) == Len(self._buffer) > 1

\* the guard of both yields: there is a group to hand over
HasGroup(self) == Len(self._buffer) > 0

\* the assertion with > in place of >=: a tie with the predecessor fails too
OverlapperSortedStrict(self, feature) ==
    Len(self._buffer) = 0 \/ __gt__(feature, self._buffer[Len(self._buffer)])

\* the assertion at the head of the loop
OverlapperSorted(self, feature) ==
    Len(self._buffer) = 0 \/ __ge__(feature, self._buffer[Len(self._buffer)])

\* the test against the group's first member alone instead of the envelope
JoinsGroupFirstOnly(self, feature) ==
    Len(self._buffer) > 0 /\ intersects(self._buffer[1], feature)

\* the feature joins the group in the buffer
JoinsGroup(self, feature) ==
    Len(self._buffer) > 0 /\ intersects(Envelope(self), feature)

\* the feature extends the group: append it and move the envelope's right edge
ExtendGroup(self, feature) ==
    [self EXCEPT !._buffer = Append(@, feature), !.right_pos = feature.right_pos]

\* the feature starts a new group
StartGroup(self, feature) ==
    [self EXCEPT !._buffer = <<feature>>,
                 !.reference_id = feature.reference_id,
                 !.left_pos = feature.left_pos,
                 !.right_pos = feature.right_pos]

\* yield self._buffer, the generator resting at `at`
YieldGroup(self, at) ==
    [self EXCEPT !.pc = at, !.raised = "", !.groups = Append(@, self._buffer)]

\* _yield_groups from the head of the for loop to its next yield or its end
RECURSIVE _yield_groups(_)
_yield_groups(self) ==
    IF self.pulled >= Len(self.source)
    THEN IF HasGroup(self)
         THEN YieldGroup(self, "yield26")
         ELSE [self EXCEPT !.pc = "finished", !.raised = "StopIteration"]
    ELSE LET feature == self.source[self.pulled + 1]
             s0 == [self EXCEPT !.pulled = @ + 1]
         IN  IF ~OverlapperSorted(self, feature)
             THEN [s0 EXCEPT !.pc = "failed", !.raised = "AssertionError"]
             ELSE IF JoinsGroup(self, feature)
             THEN _yield_groups(ExtendGroup(s0, feature))
             ELSE IF HasGroup(self)
             THEN YieldGroup(s0, "yield23")
             ELSE _yield_groups(StartGroup(s0, feature))

\* __next__: resume the generator where it rests
FeatureOverlapper__next__(self) ==
    CASE self.pc = "start" -> _yield_groups(self)
      [] self.pc = "yield23" ->
            _yield_groups(StartGroup(self, self.source[self.pulled]))
      [] self.pc = "yield26" ->
            [self EXCEPT !.pc = "finished", !.raised = "StopIteration"]
      [] OTHER -> [self EXCEPT !.raised = "StopIteration"]

InitOverlapper ==
    /\ \E n \in 0..MaxLen : \E cs \in [1..n -> Coords] :
         fo = FeatureOverlapper__init__(Source(cs))
    /\ gb = Idle /\ fs = Idle /\ og = Idle /\ dg = Idle /\ gf = Idle /\ ga = Idle

OverlapperNext ==
    /\ fo.pc \in {"start", "yield23", "yield26", "finished", "failed"}
    /\ fo' = FeatureOverlapper__next__(fo)
    /\ UNCHANGED <<gb, fs, og, dg, gf, ga>>

NextOverlapper == OverlapperNext

SpecOverlapper == InitOverlapper /\ [][NextOverlapper]_vars

RECURSIVE Concat(_)
Concat(groups) ==
    IF groups = <<>> THEN <<>> ELSE Head(groups) \o Concat(Tail(groups))

\* C10: on ascending input the emitted groups, joined in emission order, are
\* the input read so far (the whole input once the overlapper is exhausted),
\* so each record is in exactly one group in original order; no group is
\* empty, and records none of which intersects another come out as groups of
\* length 1.
C10_GroupsPartitionInput ==
    (fo.pc # "idle" /\ Ascending(fo.source)) =>
        /\ \A g \in 1..Len(fo.groups) : Len(fo.groups[g]) >= 1
        /\ Concat(fo.groups) = SubSeq(fo.source, 1, Len(Concat(fo.groups)))
        /\ fo.pc # "failed"
        /\ fo.pc = "yield23" => Len(Concat(fo.groups)) = fo.pulled - 1
        /\ fo.pc \in {"yield26", "finished"} => Concat(fo.groups) = fo.source
        /\ (/\ fo.pc = "finished"
            /\ \A i, j \in 1..Len(fo.source) :
                   i # j => ~intersects(fo.source[i], fo.source[j]))
             => \A g \in 1..Len(fo.groups) : Len(fo.groups[g]) = 1

\* C10 witness: an ascending input was grouped to the end into a group of
\* several records and a group of one.
C10_Witness ==
    /\ fo.pc = "finished" /\ Ascending(fo.source)
    /\ \E g \in 1..Len(fo.groups) : Len(fo.groups[g]) = 1
    /\ \E g \in 1..Len(fo.groups) : Len(fo.groups[g]) >= 2

\* C11: on ascending input, no record of a later group intersects a record of
\* an earlier group (a record that intersects the span from the group's first
\* left_pos to the largest right_pos of its members has joined the group).
C11_LaterGroupsDisjointFromEarlier ==
    (fo.pc # "idle" /\ Ascending(fo.source)) =>
        \A g, h \in 1..Len(fo.groups) :
            g < h => \A i \in 1..Len(fo.groups[g]) : \A j \in 1..Len(fo.groups[h]) :
                        ~intersects(fo.groups[h][j], fo.groups[g][i])

\* C12: on ascending input grouped to the end, a record that intersects its
\* immediate predecessor is in its predecessor's group, whether or not it
\* intersects the group's first record, and every record of a group after
\* its first intersects the span from the group's first left_pos to the
\* largest right_pos of the members before it (a record that does not
\* intersect that span has started a new group).
C12_GroupsAreChains ==
    (fo.pc = "finished" /\ Ascending(fo.source)) =>
        /\ \A g \in 1..Len(fo.groups) : \A k \in 2..Len(fo.groups[g]) :
              LET group == fo.groups[g]
                  before == SubSeq(group, 1, k - 1)
              IN  intersects(GenomeFeature(0, group[1].reference_id, group[1].left_pos,
                                           MaxRight(before), 0),
                             group[k])
        /\ \A g \in 2..Len(fo.groups) :
              LET previous == fo.groups[g - 1]
              IN  ~intersects(fo.groups[g][1], previous[Len(previous)])

\* C12 witness: an ascending run was emitted as one group of three although
\* its first and last records do not intersect each other.
C12_Witness ==
    /\ fo.pc = "finished" /\ Ascending(fo.source)
    /\ \E g \in 1..Len(fo.groups) :
         /\ Len(fo.groups[g]) >= 3
         /\ ~intersects(fo.groups[g][1], fo.groups[g][Len(fo.groups[g])])

\* C13: the call that pulls the first record less than its predecessor, and
\* no earlier call, fails; at that point the groups emitted and the group in
\* progress are together the records before the offending one, the group in
\* progress is never emitted, and every later call raises StopIteration
\* without emitting a group.
C13_OrderingFailureIsFatal ==
    [][fo.pc # "idle" =>
        LET k == FirstUnsorted(fo.source)
        IN  /\ (fo'.pc = "failed") <=> (k > 0 /\ fo'.pulled = k)
            /\ (fo'.pc = "failed" /\ fo.pc # "failed") =>
                  /\ fo'.raised = "AssertionError"
                  /\ fo'.groups = fo.groups
                  /\ Concat(fo'.groups) \o fo'._buffer = SubSeq(fo.source, 1, k - 1)
                  /\ fo'._buffer # <<>>
            /\ fo.pc = "failed" =>
                  /\ fo'.raised = "StopIteration"
                  /\ fo'.groups = fo.groups]_vars

\* C13 witness: the overlapper failed after emitting a group, with another
\* group in progress, and has since been called again.
C13_Witness ==
    /\ fo.pc = "failed" /\ fo.raised = "StopIteration"
    /\ Len(fo.groups) >= 1
    /\ fo._buffer # <<>>

(***************************************************************************)
(* OperationGenerator (generator.py), the merge join.                      *)
(*   a, pulled_a : the "a" iterator and how much of it is consumed         *)
(*   b_feature : the current "b" record; "b" is an iterator whose records  *)
(*       are drawn when the for loop asks for them                         *)
(*   match, a_is_passed, b_is_passed, stop_at_first_match : the            *)
(*       configuration; a predicate is named by a string                   *)
(*   count_a, count_b, count_b_hits, _a_features : the object's fields     *)
(*   pc : where _generator stands: "for_b" (head of the outer loop),       *)
(*       "flush" (first step), "for_a" (second step), "scan" (third step,  *)
(*       at buffer offset k with the local found_hit), "purge" (after the  *)
(*       outer loop), "done" (returned)                                    *)
(*   out : the features yielded so far, as they were when yielded          *)
(*   sites : for each yielded feature, the step that yielded it            *)
(*   hits : for each "a" record (by id) how many of the "b" records drawn  *)
(*       so far intersect it                                               *)
(*   b_sorted : the "b" records drawn so far were ascending                *)
(***************************************************************************)
\* the default predicates, and "any" for a caller-supplied predicate about
\* which nothing is known: the outcomes an evaluation can have
Outcomes(predicate, a, b) ==
    CASE predicate = "intersects" -> {intersects(a, b)}
      [] predicate = "left_of" -> {left_of(a, b)}
      [] predicate = "right_of" -> {right_of(a, b)}
      [] OTHER -> BOOLEAN

\* the default operate: a.data + 1
operate(a, b) == [a EXCEPT !.data = @ + 1]

OperationGenerator__init__(a, match, a_is_passed, b_is_passed, stop_at_first_match) ==
    [pc |-> "for_b", a |-> a, pulled_a |-> 0, b_feature |-> None,
     match |-> match, a_is_passed |-> a_is_passed, b_is_passed |-> b_is_passed,
     stop_at_first_match |-> stop_at_first_match,
     count_b_hits |-> 0, count_a |-> 0, count_b |-> 0,
     _a_features |-> <<>>, k |-> 0, found_hit |-> FALSE,
     out |-> <<>>, sites |-> <<>>, hits |-> [i \in 1..Len(a) |-> 0], b_sorted |-> TRUE]

DefaultConfig(self) ==
    /\ self.match = "intersects"
    /\ self.a_is_passed = "left_of"
    /\ self.b_is_passed = "right_of"
    /\ ~self.stop_at_first_match

Yield(self, feature, site) ==
    [self EXCEPT !.out = Append(@, feature), !.sites = Append(@, site)]

\* the test without its look at the buffer
YieldsOnArrivalAlways(self) == TRUE

\* the test that never lets a pulled feature by
YieldsOnArrivalNever(self) == FALSE

\* the test that lets a pulled feature overtake one buffered feature
YieldsOnArrivalBehindOne(self) == Len(self._a_features) <= 1

\* second step: a feature just pulled may be yielded at once only when
\* nothing is buffered ahead of it
YieldsOnArrival(self) == Len(self._a_features) = 0

\* the end of the third step that leaves count_b_hits alone
EndScanUncounted(self) ==
    [self EXCEPT !.pc = "for_b", !.k = 0, !.found_hit = FALSE]

\* the end of the third step: count the hit, back to the head of the outer loop
EndScan(self) ==
    [self EXCEPT !.count_b_hits = @ + (IF self.found_hit THEN 1 ELSE 0),
                 !.pc = "for_b", !.k = 0, !.found_hit = FALSE]

\* the head of the third step's for loop at offset k
ScanFrom(self, k) ==
    IF k > Len(self._a_features) THEN EndScan(self)
    ELSE [self EXCEPT !.pc = "scan", !.k = k]

\* for b_feature in self.b: the iterator hands over the record b
NextB(b) ==
    og' = [og EXCEPT
             !.b_feature = b,
             !.count_b = @ + 1,
             !.pc = "flush",
             !.hits = [i \in 1..Len(og.a) |->
                         @[i] + (IF intersects(og.a[i], b) THEN 1 ELSE 0)],
             !.b_sorted = @ /\ (og.b_feature = None \/ __ge__(b, og.b_feature))]

\* "b" is any iterator of features
OGNextB ==
    /\ og.pc = "for_b"
    /\ og.count_b < MaxLenB
    /\ \E c \in JoinCoords :
         NextB(GenomeFeature(og.count_b + 1, c.reference_id, c.left_pos, c.right_pos, 0))
    /\ UNCHANGED <<gb, fs, fo, dg, gf, ga>>

\* "b" is an ascending iterator of features
OGNextSortedB ==
    /\ og.pc = "for_b"
    /\ og.count_b < MaxLenB
    /\ \E c \in Coords :
         LET b == GenomeFeature(og.count_b + 1, c.reference_id, c.left_pos, c.right_pos, 0)
         IN  /\ og.b_feature = None \/ __ge__(b, og.b_feature)
             /\ NextB(b)
    /\ UNCHANGED <<gb, fs, fo, dg, gf, ga>>

\* for b_feature in self.b: the iterator is exhausted
OGEndB ==
    /\ og.pc = "for_b"
    /\ og' = [og EXCEPT !.pc = "purge"]
    /\ UNCHANGED <<gb, fs, fo, dg, gf, ga>>

\* the look at the oldest buffered feature that leaves it in the deque
DequePeekleft(deque) == deque

\* self._a_features.popleft(): what is left of the deque
DequePopleft(deque) == Tail(deque)

\* first step: yield the oldest buffered feature if "b" has passed it;
\* otherwise decide whether the second step has features to add
OGFlush ==
    /\ og.pc = "flush"
    /\ LET buf == og._a_features
       IN  \E passed \in (IF Len(buf) > 0
                          THEN Outcomes(og.a_is_passed, buf[1], og.b_feature)
                          ELSE {FALSE}) :
             IF passed
             THEN og' = [Yield(og, buf[1], "flush") EXCEPT !._a_features = DequePopleft(buf)]
             ELSE \E covered \in (IF Len(buf) = 0 THEN {FALSE}
                                  ELSE Outcomes(og.b_is_passed, buf[Len(buf)], og.b_feature)) :
                    og' = IF covered THEN ScanFrom(og, 1) ELSE [og EXCEPT !.pc = "for_a"]
    /\ UNCHANGED <<gb, fs, fo, dg, gf, ga>>

\* second step, one turn of its for loop: pull a feature from "a" and yield
\* or buffer it; the loop ends when "a" does
OGPull ==
    /\ og.pc = "for_a"
    /\ IF og.pulled_a >= Len(og.a)
       THEN og' = ScanFrom(og, 1)
       ELSE LET a_feature == og.a[og.pulled_a + 1]
                s0 == [og EXCEPT !.pulled_a = @ + 1, !.count_a = @ + 1]
            IN  \E passed \in (IF YieldsOnArrival(og)
                               THEN Outcomes(og.a_is_passed, a_feature, og.b_feature)
                               ELSE {FALSE}) :
                  IF passed
                  THEN og' = Yield(s0, a_feature, "for_a")
                  ELSE LET s1 == [s0 EXCEPT !._a_features = Append(@, a_feature)]
                       IN  \E covered \in Outcomes(og.b_is_passed, a_feature, og.b_feature) :
                             og' = IF covered THEN ScanFrom(s1, 1) ELSE s1
    /\ UNCHANGED <<gb, fs, fo, dg, gf, ga>>

\* the scan that looks on after a match whatever the configuration
StopsLookingNever(self) == FALSE

\* third step, after a match: if self.stop_at_first_match: break
StopsLooking(self) == self.stop_at_first_match

\* third step, one turn of its for loop: test the buffered feature at offset k
OGScan ==
    /\ og.pc = "scan"
    /\ LET a_feature == og._a_features[og.k]
       IN  \E matched \in Outcomes(og.match, a_feature, og.b_feature) :
             IF matched
             THEN LET s1 == [og EXCEPT !._a_features[og.k] = operate(a_feature, og.b_feature),
                                       !.found_hit = TRUE]
                  IN  og' = IF StopsLooking(s1) THEN EndScan(s1)
                            ELSE ScanFrom(s1, og.k + 1)
             ELSE \E passed \in Outcomes(og.b_is_passed, a_feature, og.b_feature) :
                    og' = IF passed THEN EndScan(og) ELSE ScanFrom(og, og.k + 1)
    /\ UNCHANGED <<gb, fs, fo, dg, gf, ga>>

\* after the outer loop: yield the buffered features one by one
OGPurge ==
    /\ og.pc = "purge"
    /\ Len(og._a_features) > 0
    /\ og' = [Yield(og, Head(og._a_features), "purge") EXCEPT !._a_features = DequePopleft(@)]
    /\ UNCHANGED <<gb, fs, fo, dg, gf, ga>>

\* then the rest of "a", untouched
OGDrain ==
    /\ og.pc = "purge"
    /\ Len(og._a_features) = 0
    /\ og.pulled_a < Len(og.a)
    /\ og' = [Yield(og, og.a[og.pulled_a + 1], "drain") EXCEPT !.pulled_a = @ + 1, !.count_a = @ + 1]
    /\ UNCHANGED <<gb, fs, fo, dg, gf, ga>>

\* and return
OGFinish ==
    /\ og.pc = "purge"
    /\ Len(og._a_features) = 0
    /\ og.pulled_a >= Len(og.a)
    /\ og' = [og EXCEPT !.pc = "done"]
    /\ UNCHANGED <<gb, fs, fo, dg, gf, ga>>

\* the steps of _yield_features other than drawing from "b"
JoinSteps == OGEndB \/ OGFlush \/ OGPull \/ OGScan \/ OGPurge \/ OGDrain \/ OGFinish

\* the default configuration over ascending inputs
InitJoin ==
    /\ \E n \in 0..MaxLenA : \E cs \in [1..n -> Coords] :
         /\ Ascending(Source(cs))
         /\ og = OperationGenerator__init__(Source(cs), "intersects", "left_of",
                                            "right_of", FALSE)
    /\ gb = Idle /\ fs = Idle /\ fo = Idle /\ dg = Idle /\ gf = Idle /\ ga = Idle

NextJoin == OGNextSortedB \/ JoinSteps

SpecJoin == InitJoin /\ [][NextJoin]_vars

\* predicates about which nothing is known, over inputs in any order
InitJoinAny ==
    /\ \E n \in 0..MaxLenA : \E cs \in [1..n -> JoinCoords] : \E stop \in BOOLEAN :
         og = OperationGenerator__init__(Source(cs), "any", "any", "any", stop)
    /\ gb = Idle /\ fs = Idle /\ fo = Idle /\ dg = Idle /\ gf = Idle /\ ga = Idle

NextJoinAny == OGNextB \/ JoinSteps

SpecJoinAny == InitJoinAny /\ [][NextJoinAny]_vars

\* the default predicates with either setting of stop_at_first_match, over
\* ascending inputs
InitJoinFirst ==
    /\ \E n \in 0..MaxLenA : \E cs \in [1..n -> JoinCoords] : \E stop \in BOOLEAN :
         /\ Ascending(Source(cs))
         /\ og = OperationGenerator__init__(Source(cs), "intersects", "left_of",
                                            "right_of", stop)
    /\ gb = Idle /\ fs = Idle /\ fo = Idle /\ dg = Idle /\ gf = Idle /\ ga = Idle

NextJoinFirst == OGNextSortedB \/ JoinSteps

SpecJoinFirst == InitJoinFirst /\ [][NextJoinFirst]_vars

\* the same with "a" on the first reference, "b" on any
InitJoinLive ==
    /\ \E n \in 0..MaxLenA : \E cs \in [1..n -> {c \in JoinCoords : c.reference_id = 0}] :
       \E stop \in BOOLEAN :
         /\ Ascending(Source(cs))
         /\ og = OperationGenerator__init__(Source(cs), "intersects", "left_of",
                                            "right_of", stop)
    /\ gb = Idle /\ fs = Idle /\ fo = Idle /\ dg = Idle /\ gf = Idle /\ ga = Idle

\* the consumer keeps calling __next__ and the finite "b" comes to its end
LiveJoinFirst == InitJoinLive /\ [][NextJoinFirst]_vars /\ WF_vars(NextJoinFirst)

\* the yielded features are "a"'s first records, in "a"'s order, each once
YieldedInOrder(self) ==
    /\ Ids(self.out) = [j \in 1..Len(self.out) |-> j]
    /\ Ids(self.out) \o Ids(self._a_features) = [j \in 1..self.pulled_a |-> j]

\* C1: under the default configuration with both inputs ascending, every "a"
\* record is yielded, and its payload is the payload it came with plus the
\* number of "b" records that intersect it.
C1_DefaultJoinCountsIntersections ==
    (og.pc # "idle" /\ DefaultConfig(og) /\ Ascending(og.a) /\ og.b_sorted) =>
        /\ \A j \in 1..Len(og.out) :
             og.out[j].data = og.a[og.out[j].id].data + og.hits[og.out[j].id]
        /\ og.pc = "done" => Ids(og.out) = [j \in 1..Len(og.a) |-> j]

\* C1 witness: two disjoint regions joined against three points, two in the
\* first region and one in the second, came out with counts 2 and 1.
C1_Witness ==
    /\ og.pc = "done" /\ DefaultConfig(og) /\ Ascending(og.a) /\ og.b_sorted
    /\ og.count_b = 3
    /\ Len(og.out) = 2
    /\ og.out[1].data = 2 /\ og.out[2].data = 1
    /\ left_of(og.a[1], og.a[2])

\* C2: whatever the inputs and the predicates, the features yielded are the
\* records of "a" in "a"'s order, each once with none skipped, the buffered
\* ones follow them in order, and when the generator is exhausted all of "a"
\* has been yielded.
C2_EveryAOnceInOrder ==
    og.pc # "idle" =>
        /\ YieldedInOrder(og)
        /\ \A j \in 1..Len(og.out) :
             /\ og.out[j].reference_id = og.a[j].reference_id
             /\ og.out[j].left_pos = og.a[j].left_pos
             /\ og.out[j].right_pos = og.a[j].right_pos
        /\ og.pc = "done" => Len(og.out) = Len(og.a)

\* C2 witness: the generator is exhausted having yielded one record that was
\* still buffered when "b" ended and one that had never been pulled.
C2_Witness ==
    /\ og.pc = "done"
    /\ \E j \in 1..Len(og.sites) : og.sites[j] = "purge"
    /\ \E j \in 1..Len(og.sites) : og.sites[j] = "drain"

\* the generator is back at the head of its outer loop having processed a
\* "b" record
ProcessedB(self) == self.pc = "for_b" /\ self.b_feature # None

\* the "b" record has gone by the "a" record: what the default a_is_passed
\* tests, in coordinates
GoneBy(a, b) ==
    \/ a.reference_id < b.reference_id
    \/ a.reference_id = b.reference_id /\ a.right_pos < b.left_pos

\* C29 (as stated): under the default configuration with ascending inputs,
\* once a "b" record has been processed no buffered "a" record satisfies
\* a_is_passed(a, b).
C29_NoPassedRecordStaysBuffered ==
    (DefaultConfig(og) /\ ProcessedB(og)) =>
        \A j \in 1..Len(og._a_features) : ~GoneBy(og._a_features[j], og.b_feature)

\* C29 (amended): under the default configuration with ascending inputs,
\* once a "b" record has been processed the oldest buffered "a" record does
\* not satisfy a_is_passed(a, b); the records behind it may, and they stay
\* buffered in "a"'s order until the older ones have been yielded.
C29_OldestBufferedIsNotPassed ==
    (DefaultConfig(og) /\ ProcessedB(og)) =>
        /\ Len(og._a_features) > 0 => ~GoneBy(og._a_features[1], og.b_feature)
        /\ Ids(og.out) \o Ids(og._a_features) = [j \in 1..og.pulled_a |-> j]

\* C29 witness: a "b" record has been processed and the buffer holds an
\* older record that "b" has not passed followed by one that it has.
C29_Witness ==
    /\ DefaultConfig(og) /\ ProcessedB(og)
    /\ Len(og._a_features) = 2
    /\ ~GoneBy(og._a_features[1], og.b_feature)
    /\ GoneBy(og._a_features[2], og.b_feature)

\* one turn of the second step's loop that draws a record from "a"
Pulls == og.pc = "for_a" /\ og'.pulled_a = og.pulled_a + 1

\* the second step's loop finds "a" exhausted and goes on to the third step
\* with nothing yielded or buffered
ExhaustedEndsPulling ==
    (og.pc = "for_a" /\ og.pulled_a >= Len(og.a)) =>
        /\ og'.pc # "for_a"
        /\ og'.out = og.out /\ og'._a_features = og._a_features

\* C30 (as stated): under the default configuration, a record pulled for "b"
\* that satisfies a_is_passed(a, b) is yielded at once and the buffer is left
\* alone, any other pulled record is appended to the buffer, and pulling ends
\* exactly at a pulled record that satisfies b_is_passed(a, b) or when "a" is
\* exhausted.
C30_PassedOnArrivalIsYielded ==
    [][ /\ Pulls =>
            LET a_feature == og.a[og.pulled_a + 1]
            IN  /\ IF GoneBy(a_feature, og.b_feature)
                   THEN /\ og'.out = Append(og.out, a_feature)
                        /\ og'._a_features = og._a_features
                   ELSE /\ og'.out = og.out
                        /\ og'._a_features = Append(og._a_features, a_feature)
                /\ (og'.pc # "for_a") <=> right_of(a_feature, og.b_feature)
        /\ ExhaustedEndsPulling ]_vars

\* C30 (amended): under the default configuration, a record pulled for "b"
\* is yielded at once, the buffer left alone, exactly when it satisfies
\* a_is_passed(a, b) and the buffer is empty; any other pulled record, passed
\* or not, is appended to the buffer; pulling ends exactly at a pulled record
\* that satisfies b_is_passed(a, b) or when "a" is exhausted.
C30_PassedOnArrivalIsYieldedWhenNothingIsBuffered ==
    [][ /\ Pulls =>
            LET a_feature == og.a[og.pulled_a + 1]
            IN  /\ IF Len(og._a_features) = 0 /\ GoneBy(a_feature, og.b_feature)
                   THEN /\ og'.out = Append(og.out, a_feature)
                        /\ og'._a_features = og._a_features
                   ELSE /\ og'.out = og.out
                        /\ og'._a_features = Append(og._a_features, a_feature)
                /\ (og'.pc # "for_a") <=> right_of(a_feature, og.b_feature)
        /\ ExhaustedEndsPulling ]_vars

\* C30 witness: the loop is still pulling for "b", having just buffered a
\* record that "b" has passed behind one that it has not.
C30_Witness ==
    /\ og.pc = "for_a" /\ og.pulled_a = 2 /\ og.count_b = 1
    /\ Len(og._a_features) = 2 /\ Len(og.out) = 0
    /\ ~GoneBy(og._a_features[1], og.b_feature)
    /\ GoneBy(og._a_features[2], og.b_feature)

\* C31: with match = intersects, a turn of the scan applies operate to the
\* buffered record it looks at exactly when that record matches "b", and to
\* no other record.  With stop_at_first_match set, no record has been
\* operated on for this "b" before that turn, no earlier buffered record
\* matches "b", and the scan ends with that operate: at most one record per
\* "b", the first match in buffer order.  Without it the scan goes on to the
\* next buffered record after a match.
C31_StopAtFirstMatch ==
    [][ og.pc = "scan" =>
          LET buf == og._a_features
              a_feature == buf[og.k]
              operated == og'._a_features # buf
          IN  /\ operated <=> intersects(a_feature, og.b_feature)
              /\ operated =>
                    og'._a_features = [buf EXCEPT ![og.k] = operate(a_feature, og.b_feature)]
              /\ og.stop_at_first_match =>
                    /\ ~og.found_hit
                    /\ \A j \in 1..(og.k - 1) : ~intersects(buf[j], og.b_feature)
                    /\ operated => og'.pc # "scan"
              /\ (~og.stop_at_first_match /\ operated /\ og.k < Len(buf)) =>
                    (og'.pc = "scan" /\ og'.k = og.k + 1) ]_vars

\* C31 witness: with stop_at_first_match set, the first "b" has been
\* processed with two buffered records that both intersect it, and only the
\* first was operated on.
C31_Witness ==
    /\ og.pc = "for_b" /\ og.stop_at_first_match /\ og.count_b = 1
    /\ Len(og._a_features) = 2
    /\ intersects(og._a_features[1], og.b_feature)
    /\ intersects(og._a_features[2], og.b_feature)
    /\ og._a_features[1].data = 1 /\ og._a_features[2].data = 0
    /\ og.count_b_hits = 1

\* the generator has returned with all of "a" yielded and counted
Exhausted(self) ==
    /\ self.pc = "done"
    /\ Ids(self.out) = [j \in 1..Len(self.a) |-> j]
    /\ self.count_a = Len(self.a) /\ self.pulled_a = Len(self.a)
    /\ Len(self._a_features) = 0

\* C33: over finite inputs, pulled to its end, the merge join terminates.
\* Every step draws at most the next record of "a" and the next of "b" and
\* counts it, so each is pulled once; count_b_hits grows by one at the end of
\* a "b" exactly when that "b" matches at least one record of "a", and at no
\* other time; and in the end the generator is exhausted after |a| emissions
\* with count_a = |a| and count_b the number of "b" records drawn.
C33_JoinTerminatesWithCounts ==
    /\ [][ og.pc # "idle" =>
              /\ og'.count_a = og'.pulled_a
              /\ og'.pulled_a \in {og.pulled_a, og.pulled_a + 1}
              /\ og'.count_b \in {og.count_b, og.count_b + 1}
              /\ og'.count_b = og.count_b + 1 => og'.b_feature.id = og'.count_b
              /\ og'.count_b_hits - og.count_b_hits =
                    IF /\ og.pc \in {"flush", "for_a", "scan"} /\ og'.pc = "for_b"
                       /\ \E i \in 1..Len(og.a) : intersects(og.a[i], og.b_feature)
                    THEN 1 ELSE 0
              /\ og'.pc = "done" => og'.count_b = og.count_b ]_vars
    /\ <>[]Exhausted(og)

\* C33 witness: the generator is exhausted over two "a" and three "b"
\* records, two of which matched and one of which matched both "a" records.
C33_Witness ==
    /\ Exhausted(og) /\ ~og.stop_at_first_match
    /\ Len(og.a) = 2 /\ og.count_b = 3 /\ og.count_b_hits = 2
    /\ og.out[1].data + og.out[2].data = 3


(***************************************************************************)
(* DictGenerator (generator.py), the keyed merge join.                     *)
(*   a_stream, pulled_a : the "a" iterator and how much of it is consumed  *)
(*   b : the current "b" record, drawn when the for loop asks for it       *)
(*   default_value, a_is_passed, b_is_passed : the configuration           *)
(*   count_a, count_b, count_b_hits : the object's counters                *)
(*   _a_dict : the ordered dictionary, a sequence of entries               *)
(*       [key |-> the "a" feature, value |-> its running value]            *)
(*   pc : where _generator stands: "for_b", "flush", "for_a", "update",    *)
(*       "purge", "done" (returned) or "failed" (died of an exception)     *)
(*   raised : the exception the last __next__ raised, "" when none         *)
(*   out : the pairs yielded so far                                        *)
(*   entered, folds : per record of "a", whether it was put in the         *)
(*       dictionary and how many "b" with its key were processed while it  *)
(*       was there                                                         *)
(***************************************************************************)
\* the default key of a feature: its coordinates
hash_coords(feature) == <<feature.reference_id, feature.left_pos, feature.right_pos>>

DictGenerator__init__(a_stream, default_value, a_is_passed, b_is_passed) ==
    [pc |-> "for_b", a_stream |-> a_stream, pulled_a |-> 0, b |-> None,
     default_value |-> default_value,
     a_is_passed |-> a_is_passed, b_is_passed |-> b_is_passed,
     count_b_hits |-> 0, count_a |-> 0, count_b |-> 0,
     _a_dict |-> <<>>, raised |-> "", out |-> <<>>,
     entered |-> [i \in 1..Len(a_stream) |-> FALSE],
     folds |-> [i \in 1..Len(a_stream) |-> 0]]

\* the default operate: a_value + 1
DictOperate(a_value, b) == a_value + 1

\* the lookup that always lands on the oldest entry
LookupOldest(self, feature) == IF Len(self._a_dict) > 0 THEN {1} ELSE {}

\* the positions in the dictionary of the entries whose key equals the
\* feature's key
Lookup(self, feature) ==
    {i \in 1..Len(self._a_dict) :
        hash_coords(self._a_dict[i].key) = hash_coords(feature)}

\* the membership test that compares by == (reference_id and left_pos)
DuplicateStart(self, a) ==
    \E i \in 1..Len(self._a_dict) : __eq__(self._a_dict[i].key, a)

\* a in self._a_dict
DuplicateKey(self, a) == Lookup(self, a) # {}

\* the generator dies of an exception
DictRaise(self, exception) == [self EXCEPT !.pc = "failed", !.raised = exception]

\* yield a pair
DictYield(self, a, value) ==
    [self EXCEPT !.out = Append(@, [a |-> a, value |-> value]), !.raised = ""]

\* for b in self.b_stream: the ascending iterator hands over a record
DGNextSortedB ==
    /\ dg.pc = "for_b"
    /\ dg.count_b < MaxLenB
    /\ \E c \in Coords :
         LET b == GenomeFeature(dg.count_b + 1, c.reference_id, c.left_pos, c.right_pos, 0)
         IN  /\ dg.b = None \/ __ge__(b, dg.b)
             /\ dg' = [dg EXCEPT !.b = b, !.count_b = @ + 1, !.pc = "flush"]
    /\ UNCHANGED <<gb, fs, fo, og, gf, ga>>

\* for b in self.b_stream: the iterator is exhausted
DGEndB ==
    /\ dg.pc = "for_b"
    /\ dg' = [dg EXCEPT !.pc = "purge"]
    /\ UNCHANGED <<gb, fs, fo, og, gf, ga>>

\* first step: when "b" has passed the oldest entry the generator calls
\* self._pop_feature, which the class does not define; otherwise decide
\* whether the second step has features to add
DGFlush ==
    /\ dg.pc = "flush"
    /\ LET d == dg._a_dict
       IN  \E passed \in (IF Len(d) > 0
                          THEN Outcomes(dg.a_is_passed, d[1].key, dg.b)
                          ELSE {FALSE}) :
             IF passed
             THEN dg' = DictRaise(dg, "AttributeError")
             ELSE \E covered \in (IF Len(d) = 0 THEN {FALSE}
                                  ELSE Outcomes(dg.b_is_passed, d[Len(d)].key, dg.b)) :
                    dg' = [dg EXCEPT !.pc = IF covered THEN "update" ELSE "for_a"]
    /\ UNCHANGED <<gb, fs, fo, og, gf, ga>>

\* second step, one turn of its for loop: pull a feature from "a", check it
\* against the dictionary, and yield it or enter it
DGPull ==
    /\ dg.pc = "for_a"
    /\ IF dg.pulled_a >= Len(dg.a_stream)
       THEN dg' = [dg EXCEPT !.pc = "update"]
       ELSE LET a == dg.a_stream[dg.pulled_a + 1]
                s0 == [dg EXCEPT !.pulled_a = @ + 1, !.count_a = @ + 1]
            IN  IF DuplicateKey(dg, a)
                THEN dg' = DictRaise(s0, "AssertionError")
                ELSE \E passed \in (IF Len(dg._a_dict) = 0
                                    THEN Outcomes(dg.a_is_passed, a, dg.b)
                                    ELSE {FALSE}) :
                       IF passed
                       THEN dg' = DictYield(s0, a, dg.default_value)
                       ELSE LET s1 == [s0 EXCEPT
                                         !._a_dict = Append(@, [key |-> a,
                                                                value |-> dg.default_value]),
                                         !.entered[a.id] = TRUE]
                            IN  \E covered \in Outcomes(dg.b_is_passed, a, dg.b) :
                                  dg' = IF covered THEN [s1 EXCEPT !.pc = "update"] ELSE s1
    /\ UNCHANGED <<gb, fs, fo, og, gf, ga>>

\* third step: update the entry under b's key, if there is one
DGUpdate ==
    /\ dg.pc = "update"
    /\ LET found == Lookup(dg, dg.b)
           live == {dg._a_dict[i].key.id : i \in 1..Len(dg._a_dict)}
           s0 == [dg EXCEPT
                    !.pc = "for_b",
                    !.folds = [i \in 1..Len(dg.a_stream) |->
                                 IF i \in live /\ hash_coords(dg.a_stream[i]) = hash_coords(dg.b)
                                 THEN @[i] + 1 ELSE @[i]]]
       IN  IF found = {}
           THEN dg' = s0
           ELSE LET i == CHOOSE i \in found : \A j \in found : i <= j
                IN  dg' = [s0 EXCEPT
                             !._a_dict[i].value = DictOperate(@, dg.b),
                             !.count_b_hits = @ + 1]
    /\ UNCHANGED <<gb, fs, fo, og, gf, ga>>

\* after the outer loop: yield the entries one by one, oldest first
DGPurge ==
    /\ dg.pc = "purge"
    /\ Len(dg._a_dict) > 0
    /\ dg' = [DictYield(dg, dg._a_dict[1].key, dg._a_dict[1].value)
                EXCEPT !._a_dict = Tail(@)]
    /\ UNCHANGED <<gb, fs, fo, og, gf, ga>>

\* then the rest of "a", each with the default value
DGDrain ==
    /\ dg.pc = "purge"
    /\ Len(dg._a_dict) = 0
    /\ dg.pulled_a < Len(dg.a_stream)
    /\ dg' = [DictYield(dg, dg.a_stream[dg.pulled_a + 1], dg.default_value)
                EXCEPT !.pulled_a = @ + 1, !.count_a = @ + 1]
    /\ UNCHANGED <<gb, fs, fo, og, gf, ga>>

\* and return
DGFinish ==
    /\ dg.pc = "purge"
    /\ Len(dg._a_dict) = 0
    /\ dg.pulled_a >= Len(dg.a_stream)
    /\ dg' = [dg EXCEPT !.pc = "done", !.raised = "StopIteration"]
    /\ UNCHANGED <<gb, fs, fo, og, gf, ga>>

\* __next__ on a generator that has returned or died
DGNextAfterEnd ==
    /\ dg.pc \in {"done", "failed"}
    /\ dg' = [dg EXCEPT !.raised = "StopIteration"]
    /\ UNCHANGED <<gb, fs, fo, og, gf, ga>>

\* the default configuration over ascending inputs
InitDict ==
    /\ \E n \in 0..MaxLenA : \E cs \in [1..n -> Coords] :
         /\ Ascending(Source(cs))
         /\ dg = DictGenerator__init__(Source(cs), 0, "left_of", "right_of")
    /\ gb = Idle /\ fs = Idle /\ fo = Idle /\ og = Idle /\ gf = Idle /\ ga = Idle

NextDict ==
    \/ DGNextSortedB \/ DGEndB \/ DGFlush \/ DGPull \/ DGUpdate
    \/ DGPurge \/ DGDrain \/ DGFinish \/ DGNextAfterEnd

SpecDict == InitDict /\ [][NextDict]_vars

\* the "a" records that came out, in the order they came out
Emitted(self) == [j \in 1..Len(self.out) |-> self.out[j].a]

\* the "a" records pulled and not yet emitted
Held(self) == {i \in 1..self.pulled_a : i \notin {self.out[j].a.id : j \in 1..Len(self.out)}}

\* no two records of s have the same key
UniqueKeys(s) == \A i, j \in 1..Len(s) : i # j => hash_coords(s[i]) # hash_coords(s[j])

\* C14: pulling an "a" record raises the fatal collision error exactly when
\* a record pulled before it with an equal key has not yet been emitted
\* (it is still in the map); when every earlier record with that key has
\* been emitted the pull raises nothing, and once the error is raised
\* nothing more is emitted.
C14_CollisionIffEqualKeyHeld ==
    [][/\ (dg.pc \in {"for_a", "purge"} /\ dg'.pulled_a = dg.pulled_a + 1) =>
            LET a == dg.a_stream[dg.pulled_a + 1]
            IN  /\ (dg'.raised = "AssertionError" /\ dg'.pc = "failed")
                      <=> \E i \in Held(dg) : hash_coords(dg.a_stream[i]) = hash_coords(a)
                /\ dg'.raised \in {"", "AssertionError"}
       /\ (dg.pc = "failed") => (dg'.out = dg.out /\ dg'.raised = "StopIteration")]_vars

\* C14 witness: the collision error was raised on an "a" record at the
\* coordinates of the entry in the map.
C14_Witness ==
    /\ dg.pc = "failed" /\ dg.raised = "AssertionError"
    /\ Len(dg._a_dict) = 1
    /\ hash_coords(dg._a_dict[1].key) = hash_coords(dg.a_stream[dg.pulled_a])

\* C15: iterated to its end over ascending inputs with unique "a" keys, the
\* keyed join has emitted every "a" record exactly once, in "a"'s order.
C15_EveryAOnceInOrder ==
    (dg.pc \in {"done", "failed"} /\ Ascending(dg.a_stream) /\ UniqueKeys(dg.a_stream)) =>
        Ids(Emitted(dg)) = [j \in 1..Len(dg.a_stream) |-> j]

\* C16: the value emitted with an "a" record is the default value operated
\* on once for each "b" of its key processed while it was in the map (the
\* count of those "b" under the defaults), the default value when it never
\* entered the map; and a "b" changes the entry of its key alone, and no
\* entry when no key in the map equals its key.
C16_ValueFoldsMatchingB ==
    [][dg.pc # "idle" =>
        /\ \A j \in 1..Len(dg'.out) :
             LET a == dg'.out[j].a
             IN  /\ dg'.out[j].value = dg.default_value + dg'.folds[a.id]
                 /\ ~dg'.entered[a.id] => dg'.out[j].value = dg.default_value
        /\ dg.pc = "update" =>
             /\ Len(dg'._a_dict) = Len(dg._a_dict)
             /\ \A i \in 1..Len(dg._a_dict) :
                  /\ dg'._a_dict[i].key = dg._a_dict[i].key
                  /\ dg'._a_dict[i].value =
                       IF hash_coords(dg._a_dict[i].key) = hash_coords(dg.b)
                       THEN DictOperate(dg._a_dict[i].value, dg.b)
                       ELSE dg._a_dict[i].value
             /\ Cardinality({i \in 1..Len(dg._a_dict) :
                               dg'._a_dict[i] # dg._a_dict[i]}) <= 1]_vars

\* C16 witness: an "a" record came out with the value 2 after two "b" of its
\* key, and another with the default value.
C16_Witness ==
    /\ dg.pc = "done" /\ Len(dg.out) = 2
    /\ dg.out[1].value = 2 /\ dg.entered[dg.out[1].a.id]
    /\ dg.out[2].value = dg.default_value

\* either merge join, under its default predicates over ascending inputs
InitJoins == InitJoinFirst \/ InitDict

NextJoins == NextJoinFirst \/ NextDict

SpecJoins == InitJoins /\ [][NextJoins]_vars

\* the identities of the records a sequence of features holds
IdSet(s) == {s[i].id : i \in 1..Len(s)}

\* C32: in both merge joins a record that has been emitted is finished.
\* Whatever the join does next, what was emitted stays as it was emitted
\* (the record with its payload, or the pair with its value), and the
\* emitted record is no longer in the buffer or the map, the only places
\* where operate is applied.
C32_EmittedRecordsAreFinished ==
    [][ /\ og.pc # "idle" =>
              /\ Len(og'.out) >= Len(og.out)
              /\ \A j \in 1..Len(og.out) : og'.out[j] = og.out[j]
              /\ IdSet(og'.out) \cap IdSet(og'._a_features) = {}
        /\ dg.pc # "idle" =>
              /\ Len(dg'.out) >= Len(dg.out)
              /\ \A j \in 1..Len(dg.out) : dg'.out[j] = dg.out[j]
              /\ IdSet(Emitted(dg')) \cap {dg'._a_dict[i].key.id : i \in 1..Len(dg'._a_dict)} = {}
      ]_vars

\* C32 witness: a record came out of the buffer with one hit counted, and
\* two more "b" records were processed after it, the last one counting a hit
\* on a record still buffered.
C32_Witness ==
    /\ og.pc = "for_b" /\ og.count_b = 3
    /\ Len(og.out) = 1 /\ og.out[1].data = 1 /\ og.sites[1] = "flush"
    /\ Len(og._a_features) = 1 /\ og._a_features[1].data >= 1
    /\ intersects(og._a_features[1], og.b_feature)

(***************************************************************************)
(* GenomeFeature (GenomeFeature.py): the constructor and the algebra of    *)
(* two features.  A run starts from the arguments of one call and makes    *)
(* that call:                                                              *)
(*   pc = "args" : the arguments of a constructor call                     *)
(*       reference_id : [isint, v], an integer v or a value of another     *)
(*           type; left_pos : an integer; right_pos : [given, v], an       *)
(*           integer v or the default None; is_reverse; data               *)
(*   pc = "operands" : three features x, y, z as the constructor makes     *)
(*       them, each with its strand and its payload                        *)
(*   afterwards pc names the call made and the record holds what it        *)
(*   raised and returned and the operands as the call left them            *)
(***************************************************************************)
Payloads == {0, 1}

\* the values a caller may pass as reference_id
ReferenceArgs == {[isint |-> TRUE, v |-> n] : n \in -1..1} \cup {[isint |-> FALSE, v |-> 0]}

\* the values a caller may pass as right_pos: None (the default) or an integer
RightArgs == {[given |-> FALSE, v |-> 0]} \cup {[given |-> TRUE, v |-> n] : n \in 0..MaxPos}

\* assert(right_pos >= left_pos) with > in place of >=
SpanAssertionStrict(left_pos, right_pos) == right_pos > left_pos

\* assert(right_pos >= left_pos)
SpanAssertion(left_pos, right_pos) == right_pos >= left_pos

\* GenomeFeature(reference_id, left_pos, right_pos, is_reverse, data): what
\* the call raises and the object it makes
GenomeFeature__init__(reference_id, left_pos, right_pos, is_reverse, data) ==
    IF ~(reference_id.isint /\ reference_id.v >= 0)
    THEN [raised |-> "AssertionError", obj |-> None]
    ELSE IF right_pos.given /\ ~SpanAssertion(left_pos, right_pos.v)
    THEN [raised |-> "AssertionError", obj |-> None]
    ELSE [raised |-> "",
          obj |-> [id |-> 0, reference_id |-> reference_id.v, left_pos |-> left_pos,
                   right_pos |-> IF right_pos.given THEN right_pos.v ELSE left_pos,
                   is_reverse |-> is_reverse, data |-> data]]

__len__(self) == self.right_pos - self.left_pos + 1

\* the features the constructor can make
Features ==
    {[id |-> 0, reference_id |-> c.reference_id, left_pos |-> c.left_pos,
      right_pos |-> c.right_pos, is_reverse |-> r, data |-> d] :
        c \in Coords, r \in BOOLEAN, d \in Payloads}

\* the builtins on integers
Min(m, n) == IF m < n THEN m ELSE n

Max(m, n) == IF m > n THEN m ELSE n

\* a feature made with the keyword arguments intersection and union pass:
\* forward strand
NewFeature(reference_id, left_pos, right_pos, data) ==
    [id |-> 0, reference_id |-> reference_id, left_pos |-> left_pos,
     right_pos |-> right_pos, is_reverse |-> FALSE, data |-> data]

\* what a method call did: the exception it raised ("" when none), the value
\* it returned and the receiver as the call left it
Returned(self, value) == [raised |-> "", value |-> value, self |-> self]

Raised(self, exception) == [raised |-> exception, value |-> None, self |-> self]

\* intersection that keeps the receiver's left edge
IntersectionFromOwnLeft(self, other) ==
    IF ~intersects(self, other) THEN Returned(self, None)
    ELSE Returned(self, NewFeature(self.reference_id, self.left_pos,
                                   Min(self.right_pos, other.right_pos), self.data))

intersection(self, other) ==
    IF ~intersects(self, other) THEN Returned(self, None)
    ELSE Returned(self, NewFeature(self.reference_id,
                                   Max(self.left_pos, other.left_pos),
                                   Min(self.right_pos, other.right_pos), self.data))

\* shift_left and shift_right move an edge of the receiver in place and
\* return nothing
shift_left(self, distance) ==
    IF distance > __len__(self) - 1 THEN Raised(self, "IndexError")
    ELSE Returned([self EXCEPT !.left_pos = @ + distance], None)

shift_right(self, distance) ==
    IF distance < -(__len__(self) - 1) THEN Raised(self, "IndexError")
    ELSE Returned([self EXCEPT !.right_pos = @ + distance], None)

\* other.right_of(arg) and other.left_of(arg) where arg is what a shift
\* returned: arg.right or arg.left of None is an AttributeError
RightOfReturned(other, call) ==
    IF call.raised # "" THEN call
    ELSE IF call.value = None THEN Raised(call.self, "AttributeError")
    ELSE Returned(call.self, right_of(other, call.value))

LeftOfReturned(other, call) ==
    IF call.raised # "" THEN call
    ELSE IF call.value = None THEN Raised(call.self, "AttributeError")
    ELSE Returned(call.self, left_of(other, call.value))

union(self, other) ==
    IF other.reference_id # self.reference_id THEN Returned(self, None)
    ELSE LET beyond == RightOfReturned(other, shift_right(self, 1))
         IN  IF beyond.raised # "" THEN beyond
             ELSE IF beyond.value THEN Returned(beyond.self, None)
             ELSE LET before == LeftOfReturned(other, shift_left(beyond.self, -1))
                  IN  IF before.raised # "" THEN before
                      ELSE IF before.value THEN Returned(before.self, None)
                      ELSE Returned(before.self,
                                    NewFeature(before.self.reference_id,
                                               Min(before.self.left_pos, other.left_pos),
                                               Max(before.self.right_pos, other.right_pos),
                                               before.self.data))

InitArgs ==
    /\ \E reference_id \in ReferenceArgs : \E left_pos \in 0..MaxPos :
       \E right_pos \in RightArgs : \E is_reverse \in BOOLEAN : \E data \in Payloads :
         gf = [pc |-> "args", reference_id |-> reference_id, left_pos |-> left_pos,
               right_pos |-> right_pos, is_reverse |-> is_reverse, data |-> data]
    /\ gb = Idle /\ fs = Idle /\ fo = Idle /\ og = Idle /\ dg = Idle /\ ga = Idle

InitOperands ==
    /\ \E x \in Features : \E y \in Features : \E z \in Features :
         gf = [pc |-> "operands", x |-> x, y |-> y, z |-> z]
    /\ gb = Idle /\ fs = Idle /\ fo = Idle /\ og = Idle /\ dg = Idle /\ ga = Idle

InitFeature == InitArgs \/ InitOperands

\* the constructor call, and len() of the object when there is one
GFConstruct ==
    /\ gf.pc = "args"
    /\ LET call == GenomeFeature__init__(gf.reference_id, gf.left_pos, gf.right_pos,
                                         gf.is_reverse, gf.data)
       IN  gf' = [pc |-> "constructed", reference_id |-> gf.reference_id,
                  left_pos |-> gf.left_pos, right_pos |-> gf.right_pos,
                  is_reverse |-> gf.is_reverse, data |-> gf.data,
                  raised |-> call.raised, obj |-> call.obj,
                  len |-> IF call.raised = "" THEN __len__(call.obj) ELSE 0]
    /\ UNCHANGED <<gb, fs, fo, og, dg, ga>>

\* p == q, p < q and p <= q for every two of the operands
GFCompare ==
    /\ gf.pc = "operands"
    /\ LET o == <<gf.x, gf.y, gf.z>>
       IN  gf' = [pc |-> "compared", x |-> gf.x, y |-> gf.y, z |-> gf.z,
                  eq |-> [p \in 1..3 |-> [q \in 1..3 |-> __eq__(o[p], o[q])]],
                  lt |-> [p \in 1..3 |-> [q \in 1..3 |-> __lt__(o[p], o[q])]],
                  le |-> [p \in 1..3 |-> [q \in 1..3 |-> __le__(o[p], o[q])]]]
    /\ UNCHANGED <<gb, fs, fo, og, dg, ga>>

\* x.intersects(y), y.intersects(x) and x.intersection(y)
GFIntersection ==
    /\ gf.pc = "operands"
    /\ LET call == intersection(gf.x, gf.y)
       IN  gf' = [pc |-> "intersected", x |-> gf.x, y |-> gf.y, z |-> gf.z,
                  xy |-> intersects(gf.x, gf.y), yx |-> intersects(gf.y, gf.x),
                  raised |-> call.raised, value |-> call.value, self |-> call.self]
    /\ UNCHANGED <<gb, fs, fo, og, dg, ga>>

\* x.union(y)
GFUnion ==
    /\ gf.pc = "operands"
    /\ LET call == union(gf.x, gf.y)
       IN  gf' = [pc |-> "united", x |-> gf.x, y |-> gf.y, z |-> gf.z,
                  raised |-> call.raised, value |-> call.value, self |-> call.self]
    /\ UNCHANGED <<gb, fs, fo, og, dg, ga>>

\* space_between that keeps the facing edges in the region it returns
SpaceBetweenWithEdges(self, other) ==
    IF other.reference_id # self.reference_id \/ intersects(self, other)
    THEN Returned(self, None)
    ELSE IF left_of(self, other)
    THEN IF self.right_pos + 1 = other.left_pos THEN Returned(self, None)
         ELSE Returned(self, NewFeature(self.reference_id, self.right_pos,
                                        other.left_pos, self.data))
    ELSE IF other.right_pos + 1 = self.left_pos THEN Returned(self, None)
         ELSE Returned(self, NewFeature(self.reference_id, other.right_pos,
                                        self.left_pos, self.data))

space_between(self, other) ==
    IF other.reference_id # self.reference_id \/ intersects(self, other)
    THEN Returned(self, None)
    ELSE IF left_of(self, other)
    THEN IF self.right_pos + 1 = other.left_pos THEN Returned(self, None)
         ELSE Returned(self, NewFeature(self.reference_id, self.right_pos + 1,
                                        other.left_pos - 1, self.data))
    ELSE IF other.right_pos + 1 = self.left_pos THEN Returned(self, None)
         ELSE Returned(self, NewFeature(self.reference_id, other.right_pos + 1,
                                        self.left_pos - 1, self.data))

\* a number, or float('inf') and float('-inf')
Number(n) == [kind |-> "number", n |-> n]

Infinity == [kind |-> "inf", n |-> 0]

MinusInfinity == [kind |-> "-inf", n |-> 0]

\* distance_to with the two edges of the receiver exchanged
DistanceFromFarEdge(self, other) ==
    IF other.reference_id > self.reference_id THEN Returned(self, Infinity)
    ELSE IF other.reference_id < self.reference_id THEN Returned(self, MinusInfinity)
    ELSE IF intersects(self, other) THEN Returned(self, Number(0))
    ELSE IF left_of(other, self) THEN Returned(self, Number(other.right_pos - self.right_pos))
    ELSE Returned(self, Number(other.left_pos - self.left_pos))

distance_to(self, other) ==
    IF other.reference_id > self.reference_id THEN Returned(self, Infinity)
    ELSE IF other.reference_id < self.reference_id THEN Returned(self, MinusInfinity)
    ELSE IF intersects(self, other) THEN Returned(self, Number(0))
    ELSE IF left_of(other, self) THEN Returned(self, Number(other.right_pos - self.left_pos))
    ELSE Returned(self, Number(other.left_pos - self.right_pos))

\* x.space_between(y), and y.space_between(x)
GFSpaceBetween ==
    /\ gf.pc = "operands"
    /\ LET call == space_between(gf.x, gf.y)
           swapped == space_between(gf.y, gf.x)
       IN  gf' = [pc |-> "spaced", x |-> gf.x, y |-> gf.y, z |-> gf.z,
                  raised |-> call.raised, value |-> call.value, self |-> call.self,
                  swapped |-> swapped.value]
    /\ UNCHANGED <<gb, fs, fo, og, dg, ga>>

\* x.distance_to(y), with x.intersects(y)
GFDistance ==
    /\ gf.pc = "operands"
    /\ LET call == distance_to(gf.x, gf.y)
       IN  gf' = [pc |-> "measured", x |-> gf.x, y |-> gf.y, z |-> gf.z,
                  xy |-> intersects(gf.x, gf.y),
                  raised |-> call.raised, value |-> call.value, self |-> call.self]
    /\ UNCHANGED <<gb, fs, fo, og, dg, ga>>

\* x.left_of(y), x.right_of(y) and y.right_of(x), with x.intersects(y) and
\* x < y
GFSides ==
    /\ gf.pc = "operands"
    /\ gf' = [pc |-> "sided", x |-> gf.x, y |-> gf.y, z |-> gf.z,
              xy |-> intersects(gf.x, gf.y),
              x_left_of_y |-> left_of(gf.x, gf.y),
              x_right_of_y |-> right_of(gf.x, gf.y),
              y_right_of_x |-> right_of(gf.y, gf.x),
              x_lt_y |-> __lt__(gf.x, gf.y)]
    /\ UNCHANGED <<gb, fs, fo, og, dg, ga>>

NextFeature ==
    \/ GFConstruct \/ GFCompare \/ GFIntersection \/ GFUnion
    \/ GFSpaceBetween \/ GFDistance \/ GFSides

SpecFeature == InitFeature /\ [][NextFeature]_vars

C18_OrderOnReferenceAndLeft ==
    gf.pc = "compared" =>
        LET o == <<gf.x, gf.y, gf.z>>
        IN  /\ \A p, q \in 1..3 :
                 /\ gf.eq[p][q] <=> (/\ o[p].reference_id = o[q].reference_id
                                     /\ o[p].left_pos = o[q].left_pos)
                 /\ gf.lt[p][q] <=> (\/ o[p].reference_id < o[q].reference_id
                                     \/ /\ o[p].reference_id = o[q].reference_id
                                        /\ o[p].left_pos < o[q].left_pos)
                 /\ gf.le[p][q] <=> (gf.lt[p][q] \/ gf.eq[p][q])
                 /\ Cardinality({k \in 1..3 : <<gf.lt[p][q], gf.eq[p][q], gf.lt[q][p]>>[k]}) = 1
                 /\ ~gf.lt[p][p]
            /\ \A p, q, r \in 1..3 : (gf.lt[p][q] /\ gf.lt[q][r]) => gf.lt[p][r]
            /\ \A p, q, r \in 1..3 :
                 (o[p].reference_id = o[q].reference_id /\ o[p].left_pos = o[q].left_pos)
                    => /\ gf.eq[p][r] = gf.eq[q][r] /\ gf.eq[r][p] = gf.eq[r][q]
                       /\ gf.lt[p][r] = gf.lt[q][r] /\ gf.lt[r][p] = gf.lt[r][q]
                       /\ gf.le[p][r] = gf.le[q][r] /\ gf.le[r][p] = gf.le[r][q]

\* C18 witness: two features that differ in right_pos, strand and payload
\* compared equal, and a third compared greater than both.
C18_Witness ==
    /\ gf.pc = "compared"
    /\ gf.eq[1][2]
    /\ gf.x.right_pos # gf.y.right_pos
    /\ gf.x.is_reverse # gf.y.is_reverse
    /\ gf.x.data # gf.y.data
    /\ gf.lt[1][3] /\ gf.lt[2][3]

\* C19: x.intersects(y) equals y.intersects(x); x.intersection(y) is None
\* exactly when they do not intersect, that is when they are on different
\* references or one ends before the other starts; otherwise it is a record
\* on their reference from the larger left_pos to the smaller right_pos with
\* x's payload, and x itself is left as it was.
C19_IntersectionIsTheOverlap ==
    gf.pc = "intersected" =>
        LET disjoint == \/ gf.x.reference_id # gf.y.reference_id
                        \/ gf.x.right_pos < gf.y.left_pos
                        \/ gf.y.right_pos < gf.x.left_pos
        IN  /\ gf.xy = gf.yx
            /\ gf.xy = ~disjoint
            /\ gf.raised = ""
            /\ gf.self = gf.x
            /\ (gf.value = None) <=> ~gf.xy
            /\ gf.xy =>
                 /\ gf.value.reference_id = gf.x.reference_id
                 /\ gf.value.left_pos = Max(gf.x.left_pos, gf.y.left_pos)
                 /\ gf.value.right_pos = Min(gf.x.right_pos, gf.y.right_pos)
                 /\ gf.value.data = gf.x.data

\* C19 witness: two features that overlap in part, with different payloads,
\* were intersected.
C19_Witness ==
    /\ gf.pc = "intersected" /\ gf.xy
    /\ gf.x.left_pos < gf.y.left_pos /\ gf.x.right_pos < gf.y.right_pos
    /\ gf.x.data # gf.y.data
    /\ gf.value # None

\* C20: x.union(y) is None exactly when x and y are on different references
\* or at least one base lies strictly between them; otherwise it returns a
\* record from the smaller left_pos to the larger right_pos with x's payload.
C20_UnionOfTouchingFeatures ==
    gf.pc = "united" =>
        LET gap == \/ gf.x.reference_id # gf.y.reference_id
                   \/ gf.x.right_pos + 1 < gf.y.left_pos
                   \/ gf.y.right_pos + 1 < gf.x.left_pos
        IN  /\ gf.raised = ""
            /\ gap => gf.value = None
            /\ ~gap =>
                 /\ gf.value # None
                 /\ gf.value.reference_id = gf.x.reference_id
                 /\ gf.value.left_pos = Min(gf.x.left_pos, gf.y.left_pos)
                 /\ gf.value.right_pos = Max(gf.x.right_pos, gf.y.right_pos)
                 /\ gf.value.data = gf.x.data

\* C21: intersection, union, space_between and distance_to raise nothing
\* and leave the receiver as it was, for every two features, on one
\* reference or on two.
C21_AlgebraNeverRaisesNorMutates ==
    gf.pc \in {"intersected", "united", "spaced", "measured"} =>
        (gf.raised = "" /\ gf.self = gf.x)

\* C22: x.distance_to(y) is 0 exactly when x intersects y; for disjoint
\* features of one reference it is y.right_pos - x.left_pos, below 0, when y
\* lies before x and y.left_pos - x.right_pos, above 0, when y lies after x,
\* so 1 in magnitude for adjacent features; across references it is
\* +infinity when y's reference_id is the higher and -infinity when it is
\* the lower; the strand of either feature plays no part.
C22_DistanceToNearestEdge ==
    gf.pc = "measured" =>
        LET x == gf.x
            y == gf.y
            d == gf.value
        IN  /\ gf.raised = ""
            /\ (d = Number(0)) <=> gf.xy
            /\ y.reference_id > x.reference_id => d = Infinity
            /\ y.reference_id < x.reference_id => d = MinusInfinity
            /\ (y.reference_id = x.reference_id /\ y.right_pos < x.left_pos) =>
                 (d = Number(y.right_pos - x.left_pos) /\ d.n < 0)
            /\ (y.reference_id = x.reference_id /\ y.left_pos > x.right_pos) =>
                 (d = Number(y.left_pos - x.right_pos) /\ d.n > 0)
            /\ (y.reference_id = x.reference_id /\ y.right_pos + 1 = x.left_pos) =>
                 d = Number(-1)
            /\ (y.reference_id = x.reference_id /\ x.right_pos + 1 = y.left_pos) =>
                 d = Number(1)

\* C22 witness: the distance to a feature two bases before the receiver, on
\* the other strand, was measured as -2.
C22_Witness ==
    /\ gf.pc = "measured"
    /\ gf.x.is_reverse # gf.y.is_reverse
    /\ gf.value = Number(-2)

\* C23 as stated: x.left_of(y), and y.right_of(x), hold only when x is on an
\* earlier reference or lies before y on one reference with at least one
\* base between them; features that share a base or are adjacent are on
\* neither side of each other.
C23_SidesNeedAGap ==
    gf.pc = "sided" =>
        LET separated == \/ gf.x.reference_id < gf.y.reference_id
                         \/ /\ gf.x.reference_id = gf.y.reference_id
                            /\ gf.x.right_pos + 1 < gf.y.left_pos
        IN  /\ gf.x_left_of_y <=> separated
            /\ gf.y_right_of_x <=> separated

\* C23 amended: x.left_of(y), and y.right_of(x), hold exactly when x is on
\* an earlier reference or ends before y starts on one reference, adjacent
\* features included; features that share a base are on neither side of
\* each other.
C23_SidesNeedNoSharedBase ==
    gf.pc = "sided" =>
        LET before == \/ gf.x.reference_id < gf.y.reference_id
                      \/ /\ gf.x.reference_id = gf.y.reference_id
                         /\ gf.x.right_pos < gf.y.left_pos
        IN  /\ gf.x_left_of_y <=> before
            /\ gf.y_right_of_x <=> before
            /\ gf.xy => (~gf.x_left_of_y /\ ~gf.y_right_of_x)

\* C23 witness: x ends on the base before y starts and is left_of y.
C23_Witness ==
    /\ gf.pc = "sided"
    /\ gf.x.reference_id = gf.y.reference_id
    /\ gf.x.right_pos + 1 = gf.y.left_pos
    /\ gf.x_left_of_y /\ gf.y_right_of_x

\* the coordinates of a feature
Span3(feature) == <<feature.reference_id, feature.left_pos, feature.right_pos>>

\* C35: x.space_between(y) is None when x and y are on different references,
\* intersect, or are adjacent; otherwise it is a new feature on their
\* reference from one past the right_pos of the one on the left to one before
\* the left_pos of the one on the right, and y.space_between(x) has the same
\* span.
C35_SpaceBetweenIsTheGap ==
    gf.pc = "spaced" =>
        LET x == gf.x
            y == gf.y
            no_gap == \/ x.reference_id # y.reference_id
                      \/ intersects(x, y)
                      \/ x.right_pos + 1 = y.left_pos
                      \/ y.right_pos + 1 = x.left_pos
        IN  /\ gf.raised = "" /\ gf.self = x
            /\ IF no_gap
               THEN gf.value = None /\ gf.swapped = None
               ELSE /\ gf.value # None /\ gf.swapped # None
                    /\ Span3(gf.value) = <<x.reference_id,
                                           Min(x.right_pos, y.right_pos) + 1,
                                           Max(x.left_pos, y.left_pos) - 1>>
                    /\ Span3(gf.swapped) = Span3(gf.value)
                    /\ gf.value.left_pos <= gf.value.right_pos

\* C35 witness: the receiver lies to the right of the other feature with a
\* gap of one base between them, and the call returned that base.
C35_Witness ==
    /\ gf.pc = "spaced" /\ gf.raised = ""
    /\ gf.x.reference_id = gf.y.reference_id
    /\ gf.y.right_pos + 2 = gf.x.left_pos
    /\ gf.value # None
    /\ gf.value.left_pos = gf.y.right_pos + 1 /\ gf.value.right_pos = gf.value.left_pos

\* C40: for two valid features x and y exactly one of x.left_of(y),
\* x.right_of(y) and x.intersects(y) holds, x.left_of(y) is y.right_of(x),
\* and x.left_of(y) implies x < y; so the default predicates of the merge
\* join (a_is_passed = left_of, b_is_passed = right_of, match = intersects)
\* put every pair in exactly one class.
C40_SidesAndOverlapPartition ==
    gf.pc = "sided" =>
        /\ Cardinality({c \in {"left_of", "right_of", "intersects"} :
                          \/ c = "left_of" /\ gf.x_left_of_y
                          \/ c = "right_of" /\ gf.x_right_of_y
                          \/ c = "intersects" /\ gf.xy}) = 1
        /\ gf.x_left_of_y <=> gf.y_right_of_x
        /\ gf.x_left_of_y => gf.x_lt_y
        /\ Outcomes("left_of", gf.x, gf.y) = {gf.x_left_of_y}
        /\ Outcomes("right_of", gf.x, gf.y) = {gf.x_right_of_y}
        /\ Outcomes("intersects", gf.x, gf.y) = {gf.xy}

\* C40 witness: x starts right after y ends on the same reference: x is
\* right_of y, and neither left_of y nor intersecting it.
C40_Witness ==
    /\ gf.pc = "sided"
    /\ gf.x.reference_id = gf.y.reference_id
    /\ gf.x.left_pos = gf.y.right_pos + 1
    /\ gf.x_right_of_y /\ ~gf.x_left_of_y /\ ~gf.xy

(***************************************************************************)
(* GenomeArray (container.py): a deque with one value per genome position. *)
(*   reference_id, left_pos, right_pos : the span                          *)
(*   data : the deque, a sequence of values; a value the caller stores is  *)
(*       a number above 0, default_factory() is 0                          *)
(*   op, arg : the last method called and its argument                     *)
(*   raised : the exception that call raised, "" when none                 *)
(*   result : what it returned: [kind |-> "None"], a value or a window     *)
(*   failed : some call so far has raised                                  *)
(*   calls : the number of calls made                                      *)
(***************************************************************************)
\* default_factory()
DefaultValue == 0

Defaults(n) == [i \in 1..n |-> DefaultValue]

\* len(range(n))
RangeLen(n) == IF n > 0 THEN n ELSE 0

Abs(n) == IF n < 0 THEN -n ELSE n

NoResult == [kind |-> "None"]

ValueResult(v) == [kind |-> "value", v |-> v]

WindowResult(reference_id, left_pos, right_pos, data) ==
    [kind |-> "window", reference_id |-> reference_id, left_pos |-> left_pos,
     right_pos |-> right_pos, data |-> data]

GenomeArray__init__(reference_id, left_pos, right_pos, data) ==
    [pc |-> "ready", reference_id |-> reference_id, left_pos |-> left_pos,
     right_pos |-> right_pos, data |-> data,
     op |-> "__init__", arg |-> 0, raised |-> "", result |-> NoResult,
     failed |-> FALSE, calls |-> 0]

\* the call returns
Return(self, op, arg, result) ==
    [self EXCEPT !.op = op, !.arg = arg, !.raised = "", !.result = result,
                 !.calls = @ + 1]

\* the call raises, the object left as the statements before the raise made it
Raise(self, op, arg, exception) ==
    [self EXCEPT !.op = op, !.arg = arg, !.raised = exception, !.result = NoResult,
                 !.failed = TRUE, !.calls = @ + 1]

\* n times self.data.popleft(): the deque afterwards, and IndexError when it
\* ran empty on the way
PopLeftTimes(data, n) ==
    IF n <= Len(data) THEN [raised |-> "", data |-> SubSeq(data, n + 1, Len(data))]
    ELSE [raised |-> "IndexError", data |-> <<>>]

\* n times self.data.pop()
PopTimes(data, n) ==
    IF n <= Len(data) THEN [raised |-> "", data |-> SubSeq(data, 1, Len(data) - n)]
    ELSE [raised |-> "IndexError", data |-> <<>>]

\* deque.extendleft(values): the values end up in reverse order
ExtendLeft(data, values) ==
    [i \in 1..Len(values) |-> values[Len(values) + 1 - i]] \o data

\* deque.rotate(steps): steps to the right
Rotate(data, steps) ==
    IF Len(data) = 0 THEN data
    ELSE [i \in 1..Len(data) |-> data[((i - 1 - steps) % Len(data)) + 1]]

append(self, value) ==
    Return([self EXCEPT !.data = Append(@, value), !.right_pos = @ + 1],
           "append", value, NoResult)

appendleft(self, value) ==
    Return([self EXCEPT !.data = <<value>> \o @, !.left_pos = @ - 1],
           "appendleft", value, NoResult)

extend(self, values) ==
    Return([self EXCEPT !.data = @ \o values, !.right_pos = @ + Len(values)],
           "extend", values, NoResult)

extendleft(self, values) ==
    Return([self EXCEPT !.data = ExtendLeft(@, values), !.left_pos = @ - Len(values)],
           "extendleft", values, NoResult)

pop(self) ==
    LET s0 == [self EXCEPT !.right_pos = @ - 1]
    IN  IF Len(self.data) = 0 THEN Raise(s0, "pop", 0, "IndexError")
        ELSE Return([s0 EXCEPT !.data = SubSeq(@, 1, Len(@) - 1)], "pop", 0,
                    ValueResult(self.data[Len(self.data)]))

popleft(self) ==
    LET s0 == [self EXCEPT !.left_pos = @ + 1]
    IN  IF Len(self.data) = 0 THEN Raise(s0, "popleft", 0, "IndexError")
        ELSE Return([s0 EXCEPT !.data = Tail(@)], "popleft", 0,
                    ValueResult(self.data[1]))

\* shift_left that discards from the right end of the deque
ShiftLeftPoppingRight(self, distance) ==
    IF distance > __len__(self) - 1 THEN Raise(self, "shift_left", distance, "IndexError")
    ELSE LET s0 == [self EXCEPT !.left_pos = @ + distance]
         IN  IF distance > 0
             THEN LET popped == PopTimes(self.data, distance)
                      s1 == [s0 EXCEPT !.data = popped.data]
                  IN  IF popped.raised # "" THEN Raise(s1, "shift_left", distance, popped.raised)
                      ELSE Return(s1, "shift_left", distance, NoResult)
             ELSE IF distance < 0
             THEN Return([s0 EXCEPT !.data = ExtendLeft(@, Defaults(-distance))],
                         "shift_left", distance, NoResult)
             ELSE Return(s0, "shift_left", distance, NoResult)

GenomeArray_shift_left(self, distance) ==
    IF distance > __len__(self) - 1 THEN Raise(self, "shift_left", distance, "IndexError")
    ELSE LET s0 == [self EXCEPT !.left_pos = @ + distance]
         IN  IF distance > 0
             THEN LET popped == PopLeftTimes(self.data, distance)
                      s1 == [s0 EXCEPT !.data = popped.data]
                  IN  IF popped.raised # "" THEN Raise(s1, "shift_left", distance, popped.raised)
                      ELSE Return(s1, "shift_left", distance, NoResult)
             ELSE IF distance < 0
             THEN Return([s0 EXCEPT !.data = ExtendLeft(@, Defaults(-distance))],
                         "shift_left", distance, NoResult)
             ELSE Return(s0, "shift_left", distance, NoResult)

GenomeArray_shift_right(self, distance) ==
    IF distance < -(__len__(self) - 1) THEN Raise(self, "shift_right", distance, "IndexError")
    ELSE LET s0 == [self EXCEPT !.right_pos = @ + distance]
         IN  IF distance > 0
             THEN Return([s0 EXCEPT !.data = @ \o Defaults(distance)],
                         "shift_right", distance, NoResult)
             ELSE IF distance < 0
             THEN LET popped == PopTimes(self.data, -distance)
                      s1 == [s0 EXCEPT !.data = popped.data]
                  IN  IF popped.raised # "" THEN Raise(s1, "shift_right", distance, popped.raised)
                      ELSE Return(s1, "shift_right", distance, NoResult)
             ELSE Return(s0, "shift_right", distance, NoResult)

\* the rebuilt deque with one value per base of the distance
RebuiltForDistance(self, distance) == Defaults(Abs(distance))

\* the deque rebuilt from defaults, one per position of the span
Rebuilt(self, distance) == Defaults(__len__(self))

\* moving left: for i in range(distance): self.data.pop()
PopsWhenMovingLeft(distance) == RangeLen(distance)

shift(self, distance) ==
    LET s0 == [self EXCEPT !.left_pos = @ + distance, !.right_pos = @ + distance]
    IN  IF Abs(distance) >= __len__(s0)
        THEN Return([s0 EXCEPT !.data = Rebuilt(s0, distance)], "shift", distance, NoResult)
        ELSE IF distance > 0
        THEN LET popped == PopLeftTimes(self.data, RangeLen(distance))
                 s1 == [s0 EXCEPT !.data = popped.data]
             IN  IF popped.raised # "" THEN Raise(s1, "shift", distance, popped.raised)
                 ELSE Return([s1 EXCEPT !.data = @ \o Defaults(distance)],
                             "shift", distance, NoResult)
        ELSE IF distance < 0
        THEN LET popped == PopTimes(self.data, PopsWhenMovingLeft(distance))
                 s1 == [s0 EXCEPT !.data = popped.data]
             IN  IF popped.raised # "" THEN Raise(s1, "shift", distance, popped.raised)
                 ELSE Return([s1 EXCEPT !.data = ExtendLeft(@, Defaults(-distance))],
                             "shift", distance, NoResult)
        ELSE Return(s0, "shift", distance, NoResult)

move(self, distance) ==
    Return([self EXCEPT !.left_pos = @ + distance, !.right_pos = @ + distance],
           "move", distance, NoResult)

rotate(self, steps) ==
    Return([self EXCEPT !.data = Rotate(@, steps),
                        !.left_pos = @ + steps, !.right_pos = @ + steps],
           "rotate", steps, NoResult)

\* the bounds test that lets the position before the left edge through
OutOfSpanBelowLeftNeighbour(self, position) ==
    ~(self.left_pos - 1 <= position /\ position <= self.right_pos)

\* not self.left_pos <= position <= self.right_pos
OutOfSpan(self, position) ==
    ~(self.left_pos <= position /\ position <= self.right_pos)

\* the place in the deque of a Python index, negative ones counting from
\* the right end; 0 when the index is out of range
DequeIndex(data, index) ==
    IF 0 <= index /\ index < Len(data) THEN index + 1
    ELSE IF -Len(data) <= index /\ index < 0 THEN Len(data) + index + 1
    ELSE 0

set_pos(self, position, value) ==
    IF OutOfSpan(self, position) THEN Raise(self, "set_pos", position, "IndexError")
    ELSE LET at == DequeIndex(self.data, position - self.left_pos)
         IN  IF at = 0 THEN Raise(self, "set_pos", position, "IndexError")
             ELSE Return([self EXCEPT !.data[at] = value], "set_pos", position, NoResult)

\* GenomeArray(reference_id, left_pos, right_pos, data = a deque): a window,
\* or the AssertionError of len(self.data) == len(self)
NewWindow(reference_id, left_pos, right_pos, data) ==
    IF ~SpanAssertion(left_pos, right_pos) THEN [raised |-> "AssertionError", result |-> NoResult]
    ELSE IF Len(data) # right_pos - left_pos + 1
    THEN [raised |-> "AssertionError", result |-> NoResult]
    ELSE [raised |-> "", result |-> WindowResult(reference_id, left_pos, right_pos, data)]

\* self[index] for an integer index: the element becomes the data of a new
\* GenomeArray, whose constructor takes len() of it; the values are numbers
GenomeArray__getitem__(self, op, arg, index) ==
    IF ~(-__len__(self) <= index /\ index <= __len__(self))
    THEN Raise(self, op, arg, "IndexError")
    ELSE IF DequeIndex(self.data, index) = 0
    THEN Raise(self, op, arg, "IndexError")
    ELSE Raise(self, op, arg, "TypeError")

get_pos(self, position) ==
    IF OutOfSpan(self, position) THEN Raise(self, "get_pos", position, "IndexError")
    ELSE GenomeArray__getitem__(self, "get_pos", position, position - self.left_pos)

\* the values at offsets range(start, stop) of the deque
RangeOfData(data, start, stop) == [i \in 1..RangeLen(stop - start) |-> data[start + i]]

GenomeArray_intersection(self, other) ==
    IF other.reference_id # self.reference_id
    THEN Return(self, "intersection", other, NoResult)
    ELSE IF other.right_pos < self.left_pos \/ self.right_pos < other.left_pos
    THEN Return(self, "intersection", other, NoResult)
    ELSE LET new_left == Max(self.left_pos, other.left_pos)
             new_right == Min(self.right_pos, other.right_pos)
             made == NewWindow(self.reference_id, new_left, new_right,
                               RangeOfData(self.data, new_left - self.left_pos,
                                           new_right - self.left_pos))
         IN  IF made.raised # "" THEN Raise(self, "intersection", other, made.raised)
             ELSE Return(self, "intersection", other, made.result)

\* the distances and regions the caller passes
Distances == (-MaxShift)..MaxShift

Regions == {[reference_id |-> c.reference_id, left_pos |-> c.left_pos,
             right_pos |-> c.right_pos] : c \in Coords}

\* a window over any valid span of the first reference, built from a payload
\* sequence of its length (a different value at each position) or from the
\* default factory
InitArray ==
    /\ \E c \in {c \in Coords : c.reference_id = 0} : \E given \in BOOLEAN :
         ga = GenomeArray__init__(c.reference_id, c.left_pos, c.right_pos,
                                  IF given
                                  THEN [i \in 1..(c.right_pos - c.left_pos + 1) |-> i]
                                  ELSE Defaults(c.right_pos - c.left_pos + 1))
    /\ gb = Idle /\ fs = Idle /\ fo = Idle /\ og = Idle /\ dg = Idle /\ gf = Idle

Callable == ga.pc = "ready" /\ ga.calls < MaxCalls

GAAppend ==
    /\ Callable
    /\ ga' = append(ga, 7)
    /\ UNCHANGED <<gb, fs, fo, og, dg, gf>>

GAAppendLeft ==
    /\ Callable
    /\ ga' = appendleft(ga, 8)
    /\ UNCHANGED <<gb, fs, fo, og, dg, gf>>

GAExtend ==
    /\ Callable
    /\ ga' = extend(ga, <<7, 8>>)
    /\ UNCHANGED <<gb, fs, fo, og, dg, gf>>

GAExtendLeft ==
    /\ Callable
    /\ ga' = extendleft(ga, <<7, 8>>)
    /\ UNCHANGED <<gb, fs, fo, og, dg, gf>>

GAPop ==
    /\ Callable
    /\ ga' = pop(ga)
    /\ UNCHANGED <<gb, fs, fo, og, dg, gf>>

GAPopLeft ==
    /\ Callable
    /\ ga' = popleft(ga)
    /\ UNCHANGED <<gb, fs, fo, og, dg, gf>>

GAShiftLeft ==
    /\ Callable
    /\ \E d \in Distances : ga' = GenomeArray_shift_left(ga, d)
    /\ UNCHANGED <<gb, fs, fo, og, dg, gf>>

GAShiftRight ==
    /\ Callable
    /\ \E d \in Distances : ga' = GenomeArray_shift_right(ga, d)
    /\ UNCHANGED <<gb, fs, fo, og, dg, gf>>

GAShift ==
    /\ Callable
    /\ \E d \in Distances : ga' = shift(ga, d)
    /\ UNCHANGED <<gb, fs, fo, og, dg, gf>>

GAMove ==
    /\ Callable
    /\ \E d \in {-1, 1} : ga' = move(ga, d)
    /\ UNCHANGED <<gb, fs, fo, og, dg, gf>>

GARotate ==
    /\ Callable
    /\ \E steps \in {-1, 1} : ga' = rotate(ga, steps)
    /\ UNCHANGED <<gb, fs, fo, og, dg, gf>>

GAGetPos ==
    /\ Callable
    /\ \E p \in (ga.left_pos - 1)..(ga.right_pos + 1) : ga' = get_pos(ga, p)
    /\ UNCHANGED <<gb, fs, fo, og, dg, gf>>

GASetPos ==
    /\ Callable
    /\ \E p \in (ga.left_pos - 1)..(ga.right_pos + 1) : ga' = set_pos(ga, p, 9)
    /\ UNCHANGED <<gb, fs, fo, og, dg, gf>>

GAIntersection ==
    /\ Callable
    /\ \E other \in Regions : ga' = GenomeArray_intersection(ga, other)
    /\ UNCHANGED <<gb, fs, fo, og, dg, gf>>

NextArray ==
    \/ GAAppend \/ GAAppendLeft \/ GAExtend \/ GAExtendLeft \/ GAPop \/ GAPopLeft
    \/ GAShiftLeft \/ GAShiftRight \/ GAShift \/ GAMove \/ GARotate
    \/ GAGetPos \/ GASetPos \/ GAIntersection

SpecArray == InitArray /\ [][NextArray]_vars

\* the window-relative offsets a caller passes, and the two ends of a slice:
\* an offset, or None when it is left out
Offsets == (-(MaxPos + 1))..(MaxPos + 1)

SliceEnds == {[given |-> FALSE, v |-> 0]} \cup {[given |-> TRUE, v |-> n] : n \in Offsets}

\* GenomeFeature._compute_position: the position of an offset, which may be
\* one past the right end, or IndexError
_compute_position(self, index) ==
    IF 0 <= index /\ index <= __len__(self)
    THEN [raised |-> "", v |-> self.left_pos + index]
    ELSE IF -1 >= index /\ index >= -__len__(self)
    THEN [raised |-> "", v |-> self.right_pos + index + 1]
    ELSE [raised |-> "IndexError", v |-> 0]

\* self[start:stop]: the checks on the slice, the two positions, the values
\* collected from the deque, and the new window the constructor makes of them
GenomeArray__getitem__slice(self, start, stop) ==
    LET arg == [start |-> start, stop |-> stop]
    IN  IF start.given /\ stop.given /\ stop.v <= start.v
        THEN Raise(self, "slice", arg, "IndexError")
        ELSE LET start_pos == IF start.given THEN _compute_position(self, start.v)
                              ELSE [raised |-> "", v |-> self.left_pos]
                 stop_pos == IF stop.given THEN _compute_position(self, stop.v)
                             ELSE [raised |-> "", v |-> self.right_pos]
                 lo == start_pos.v - self.left_pos
                 hi == stop_pos.v - self.left_pos
             IN  IF start_pos.raised # "" THEN Raise(self, "slice", arg, start_pos.raised)
                 ELSE IF stop_pos.raised # "" THEN Raise(self, "slice", arg, stop_pos.raised)
                 ELSE IF \E i \in lo..(hi - 1) : DequeIndex(self.data, i) = 0
                 THEN Raise(self, "slice", arg, "IndexError")
                 ELSE LET made == NewWindow(self.reference_id, start_pos.v, stop_pos.v - 1,
                                            [i \in 1..RangeLen(hi - lo) |->
                                               self.data[DequeIndex(self.data, lo + i - 1)]])
                      IN  IF made.raised # "" THEN Raise(self, "slice", arg, made.raised)
                          ELSE Return(self, "slice", arg, made.result)

\* self[index]
GAGetItem ==
    /\ Callable
    /\ \E index \in Offsets : ga' = GenomeArray__getitem__(ga, "__getitem__", index, index)
    /\ UNCHANGED <<gb, fs, fo, og, dg, gf>>

\* self[start:stop]
GASlice ==
    /\ Callable
    /\ \E start \in SliceEnds : \E stop \in SliceEnds :
         ga' = GenomeArray__getitem__slice(ga, start, stop)
    /\ UNCHANGED <<gb, fs, fo, og, dg, gf>>

\* a window that is written and read
NextRead == GASetPos \/ GAGetPos \/ GAGetItem \/ GASlice

SpecRead == InitArray /\ [][NextRead]_vars

\* C24: as long as no call has failed, the deque holds one value per
\* position of the span: len(data) = right_pos - left_pos + 1.
C24_PayloadAndSpanInLockStep ==
    (ga.pc = "ready" /\ ~ga.failed) => Len(ga.data) = ga.right_pos - ga.left_pos + 1

\* C25: shift(d) on a window in lock-step, with |d| at least the length,
\* moves both bounds by d and leaves a deque of length-many default values,
\* and raises nothing (no value is taken from an empty deque).
C25_LongShiftRebuildsFromDefaults ==
    [][(/\ ga.pc = "ready" /\ ga'.op = "shift" /\ ga'.calls = ga.calls + 1
        /\ Len(ga.data) = __len__(ga)
        /\ Abs(ga'.arg) >= __len__(ga))
        => /\ ga'.raised = ""
           /\ ga'.left_pos = ga.left_pos + ga'.arg
           /\ ga'.right_pos = ga.right_pos + ga'.arg
           /\ ga'.data = [i \in 1..__len__(ga) |-> DefaultValue]]_vars

\* C25 witness: a window was shifted by more than its length.
C25_Witness ==
    /\ ga.pc = "ready" /\ ga.op = "shift" /\ ga.calls = 1 /\ ga.raised = ""
    /\ Abs(ga.arg) > __len__(ga)
    /\ __len__(ga) >= 1

\* the value the window holds at a genome position
ValueAt(self, position) == self.data[position - self.left_pos + 1]

\* C26: shift(d) on a window in lock-step, with 0 < |d| < length, d positive
\* or negative, moves both bounds by d; afterwards the window holds one
\* value per position, the old value at every position of both spans and a
\* default value at every position new to the span.
C26_ShortShiftKeepsSharedPositions ==
    [][(/\ ga.pc = "ready" /\ ga'.op = "shift" /\ ga'.calls = ga.calls + 1
        /\ Len(ga.data) = __len__(ga)
        /\ 0 < Abs(ga'.arg) /\ Abs(ga'.arg) < __len__(ga))
        => /\ ga'.raised = ""
           /\ ga'.left_pos = ga.left_pos + ga'.arg
           /\ ga'.right_pos = ga.right_pos + ga'.arg
           /\ Len(ga'.data) = __len__(ga)
           /\ \A p \in ga'.left_pos..ga'.right_pos :
                ValueAt(ga', p) = IF p \in ga.left_pos..ga.right_pos
                                  THEN ValueAt(ga, p) ELSE DefaultValue]_vars

\* C27: intersection(other) on a window in lock-step returns None when the
\* two share no position or are on different references; otherwise a window
\* from the larger left_pos to the smaller right_pos whose values are the
\* original's at those positions; the original is left as it was.
C27_IntersectionRestrictsTheWindow ==
    [][(/\ ga.pc = "ready" /\ ga'.op = "intersection" /\ ga'.calls = ga.calls + 1
        /\ Len(ga.data) = __len__(ga))
        => LET other == ga'.arg
               disjoint == \/ other.reference_id # ga.reference_id
                           \/ other.right_pos < ga.left_pos
                           \/ ga.right_pos < other.left_pos
               new_left == Max(ga.left_pos, other.left_pos)
               new_right == Min(ga.right_pos, other.right_pos)
           IN  /\ ga'.raised = ""
               /\ ga'.data = ga.data
               /\ ga'.left_pos = ga.left_pos /\ ga'.right_pos = ga.right_pos
               /\ disjoint => ga'.result = NoResult
               /\ ~disjoint =>
                    ga'.result = WindowResult(ga.reference_id, new_left, new_right,
                                              [i \in 1..(new_right - new_left + 1) |->
                                                 ValueAt(ga, new_left + i - 1)])]_vars

\* C28: get_pos and set_pos at a genome position outside the span raise
\* IndexError and leave span and payload as they were.
C28_OutOfSpanAccessIsRecoverable ==
    [][(/\ ga.pc = "ready" /\ ga'.op \in {"get_pos", "set_pos"}
        /\ ga'.calls = ga.calls + 1
        /\ (ga'.arg < ga.left_pos \/ ga'.arg > ga.right_pos))
        => /\ ga'.raised = "IndexError"
           /\ ga'.reference_id = ga.reference_id
           /\ ga'.left_pos = ga.left_pos
           /\ ga'.right_pos = ga.right_pos
           /\ ga'.data = ga.data]_vars

\* C28 witness: after two calls that succeeded, set_pos one position past
\* the right edge raised IndexError.
C28_Witness ==
    /\ ga.pc = "ready" /\ ga.calls = 3
    /\ ga.op = "set_pos" /\ ga.raised = "IndexError"
    /\ ga.arg = ga.right_pos + 1
    /\ Len(ga.data) = __len__(ga)

\* C36: on a window in lock-step, shift_left(d) moves the left bound by d and
\* shift_right(d) the right bound by d, the other bound staying; afterwards
\* the window holds one value per position, the old value at every position
\* that stays in the span and a default value at every position new to it.
\* A distance that would leave no position (d >= length for shift_left,
\* d <= -length for shift_right) raises IndexError with span and payload
\* unchanged.
C36_OneBoundShiftKeepsPositions ==
    [][(/\ ga.pc = "ready" /\ ga'.op \in {"shift_left", "shift_right"}
        /\ ga'.calls = ga.calls + 1
        /\ Len(ga.data) = __len__(ga))
        => LET d == ga'.arg
               leftward == ga'.op = "shift_left"
               empties == IF leftward THEN d >= __len__(ga) ELSE d <= -__len__(ga)
           IN  IF empties
               THEN /\ ga'.raised = "IndexError"
                    /\ ga'.left_pos = ga.left_pos /\ ga'.right_pos = ga.right_pos
                    /\ ga'.data = ga.data
               ELSE /\ ga'.raised = ""
                    /\ ga'.left_pos = ga.left_pos + (IF leftward THEN d ELSE 0)
                    /\ ga'.right_pos = ga.right_pos + (IF leftward THEN 0 ELSE d)
                    /\ Len(ga'.data) = __len__(ga')
                    /\ \A p \in ga'.left_pos..ga'.right_pos :
                         ValueAt(ga', p) = IF p \in ga.left_pos..ga.right_pos
                                           THEN ValueAt(ga, p) ELSE DefaultValue]_vars

\* C36 witness: shift_left(1) discarded the first of three given values, and
\* then shift_right(-2), which would leave no position, raised IndexError.
C36_Witness ==
    /\ ga.pc = "ready" /\ ga.calls = 2
    /\ ga.op = "shift_right" /\ ga.arg = -2 /\ ga.raised = "IndexError"
    /\ ga.data = <<2, 3>> /\ ga.right_pos = ga.left_pos + 1

\* the offset from the left end that Python gives an index below zero
FromLeft(self, index) == IF index < 0 THEN __len__(self) + index ELSE index

\* C37: self[i:j] with the offsets i (0 when left out) and j (the length
\* when left out), negative ones counted from the right end, and
\* 0 <= i < j <= length, returns a window on the same reference from
\* left_pos + i to left_pos + j - 1 holding exactly the values at the offsets
\* i .. j - 1.
C37_SliceIsHalfOpen ==
    (ga.pc = "ready" /\ ga.op = "slice") =>
        LET start == ga.arg.start
            stop == ga.arg.stop
            i == IF start.given THEN FromLeft(ga, start.v) ELSE 0
            j == IF stop.given THEN FromLeft(ga, stop.v) ELSE __len__(ga)
        IN  (/\ start.given => (-__len__(ga) <= start.v /\ start.v <= __len__(ga))
             /\ stop.given => (-__len__(ga) <= stop.v /\ stop.v <= __len__(ga))
             /\ 0 <= i /\ i < j /\ j <= __len__(ga))
            => /\ ga.raised = ""
               /\ ga.result = WindowResult(ga.reference_id, ga.left_pos + i,
                                           ga.left_pos + j - 1,
                                           [n \in 1..(j - i) |-> ga.data[i + n]])

\* C38: after set_pos(p, v) with p in the span, the value at p is v and the
\* value at every other position is as before; and reading p next, by
\* get_pos(p), by the offset p - left_pos or by the negative offset
\* p - right_pos - 1, raises nothing and returns a window of the one
\* position p holding v.
C38_WrittenValueReadsBack ==
    [][ /\ (/\ ga.pc = "ready" /\ ga'.op = "set_pos" /\ ga'.calls = ga.calls + 1
            /\ ga.left_pos <= ga'.arg /\ ga'.arg <= ga.right_pos)
           => /\ ga'.raised = ""
              /\ Len(ga'.data) = Len(ga.data)
              /\ \A p \in ga.left_pos..ga.right_pos :
                   ValueAt(ga', p) = IF p = ga'.arg THEN 9 ELSE ValueAt(ga, p)
        /\ (/\ ga.pc = "ready" /\ ga.op = "set_pos" /\ ga.raised = ""
            /\ ga'.calls = ga.calls + 1
            /\ \/ ga'.op = "get_pos" /\ ga'.arg = ga.arg
               \/ ga'.op = "__getitem__" /\ ga'.arg = ga.arg - ga.left_pos
               \/ ga'.op = "__getitem__" /\ ga'.arg = ga.arg - ga.right_pos - 1)
           => /\ ga'.raised = ""
              /\ ga'.result = WindowResult(ga.reference_id, ga.arg, ga.arg,
                                           <<ValueAt(ga, ga.arg)>>) ]_vars

\* C39: on a window in lock-step that holds values, pop and popleft return
\* the value at the right and the left end, take it out of the deque and
\* narrow the span by one at that end; on a window that holds none they
\* raise and leave left_pos and right_pos as they were.
C39_PopNarrowsOrLeavesAlone ==
    [][(/\ ga.pc = "ready" /\ ga'.op \in {"pop", "popleft"}
        /\ ga'.calls = ga.calls + 1
        /\ Len(ga.data) = __len__(ga))
        => LET right_end == ga'.op = "pop"
           IN  IF Len(ga.data) > 0
               THEN /\ ga'.raised = ""
                    /\ ga'.result = ValueResult(IF right_end THEN ga.data[Len(ga.data)]
                                                 ELSE ga.data[1])
                    /\ ga'.data = IF right_end THEN SubSeq(ga.data, 1, Len(ga.data) - 1)
                                   ELSE Tail(ga.data)
                    /\ ga'.left_pos = ga.left_pos + (IF right_end THEN 0 ELSE 1)
                    /\ ga'.right_pos = ga.right_pos - (IF right_end THEN 1 ELSE 0)
               ELSE /\ ga'.raised # ""
                    /\ ga'.left_pos = ga.left_pos /\ ga'.right_pos = ga.right_pos
                    /\ ga'.data = ga.data]_vars

====
